---- MODULE Spec2Model ----
(***************************************************************************)
(* Detection post-processing of manga-translator-ui:                       *)
(*   - merge_detection_boxes   (manga_translator/detection/__init__.py)    *)
(*   - CommonDetector.detect   (manga_translator/detection/common.py)      *)
(*   - get_detector, unload, dispatch                                      *)
(*                             (manga_translator/detection/__init__.py)    *)
(*   - YOLOOBBDetector._infer  (manga_translator/detection/yolo_obb.py)    *)
(*   - StableGeometryEngine    (desktop-ui/core/stable_geometry_engine.py) *)
(* A box (Quadrilateral) is the sequence of its four corner points         *)
(* <<x, y>>.  Coordinates are integers (pixel positions).                  *)
(***************************************************************************)
EXTENDS Integers, Sequences, FiniteSets, TLC

VARIABLES
    \* ---- merge_detection_boxes: arguments and return value
    yolo_boxes,     \* list of auxiliary (YOLO OBB) boxes
    main_boxes,     \* list of primary detector boxes
    merged,         \* returned list, as references [src, idx] to the input objects
    mpc,            \* "input" before the call, "merged" after it
    \* ---- CommonDetector.detect: one top-level call
    request,        \* arguments of the top-level call
    frame,          \* arguments of the detect() invocation now running
    image,          \* the image handed to _detect (after the filters)
    dpc,            \* "call" | "await" | "post" | "done" | "raised"
    passes,         \* number of _detect runs so far
    detected,       \* what the latest _detect run returned (kept until detect is entered again)
    heap,           \* the corner arrays of the box objects of that run, as they are now
    ret,            \* value returned by the top-level call
    log,            \* steps executed by the invocation now running
    \* ---- detector cache and dispatch
    detector_cache, \* the module-level dict: key -> detector instance (an index of instances)
    instances,      \* every detector object constructed so far, in order of construction
    history,        \* get_detector / unload calls made so far, with what they returned
    task,           \* the dispatch coroutines in flight: caller -> its locals and position
    \* ---- YOLOOBBDetector._infer: one call
    infer_call,     \* arguments: image.shape and text_threshold
    ipc,            \* "call" | "run" | "post" | "done"
    lb,             \* what letterbox returned: padded size, gain, pad
    objects,        \* the boxes the model reports, in coordinates of the original image
    outputs,        \* what session.run returned: the same boxes in letterboxed coordinates
    post,           \* locals and return value of postprocess
    infer_ret,      \* value returned by _infer
    \* ---- StableGeometryEngine: one region being edited
    region_data,    \* the region_data given to RegionGeometryManager.from_region_data
    geometry_state, \* the current GeometryState
    original_anchor,\* the visual anchor of the state from_region_data built
    edits           \* number of update_rotation / add_polygon_to_geometry calls so far

mergeVars  == <<yolo_boxes, main_boxes, merged, mpc>>
detectVars == <<request, frame, image, dpc, passes, detected, heap, ret, log>>
cacheVars  == <<detector_cache, instances, history, task>>
inferVars  == <<infer_call, ipc, lb, objects, outputs, post, infer_ret>>
geometryVars == <<region_data, geometry_state, original_anchor, edits>>
vars       == <<yolo_boxes, main_boxes, merged, mpc,
                request, frame, image, dpc, passes, detected, heap, ret, log,
                detector_cache, instances, history, task,
                infer_call, ipc, lb, objects, outputs, post, infer_ret,
                region_data, geometry_state, original_anchor, edits>>

\* the parts of the program that a specification leaves alone
CacheIdle ==
    /\ detector_cache = <<>>
    /\ instances = <<>>
    /\ history = <<>>
    /\ task = <<>>

InferIdle ==
    /\ infer_call = <<>>
    /\ ipc = "idle"
    /\ lb = <<>>
    /\ objects = <<>>
    /\ outputs = <<>>
    /\ post = <<>>
    /\ infer_ret = <<>>

GeometryIdle ==
    /\ region_data = <<>>
    /\ geometry_state = <<>>
    /\ original_anchor = <<>>
    /\ edits = 0

----------------------------------------------------------------------------
(* Bounds of the explored inputs *)

\* merge inputs: x coordinates range over 0..MaxCoord
MaxCoord == 2
\* merge inputs: len(yolo_boxes) + len(main_boxes) <= MaxBoxes
MaxBoxes == 3
\* detect: a _detect run returns at most MaxTextlines boxes
MaxTextlines == 2

----------------------------------------------------------------------------
(* Quadrilateral geometry *)

Min2(a, b) == IF a <= b THEN a ELSE b
Max2(a, b) == IF a >= b THEN a ELSE b

\* axis-aligned quadrilateral with corners in winding order
Rect(x1, y1, x2, y2) == << <<x1, y1>>, <<x2, y1>>, <<x2, y2>>, <<x1, y2>> >>

\* np.min(box.pts[:, 0]) and friends
MinX(pts) == Min2(Min2(pts[1][1], pts[2][1]), Min2(pts[3][1], pts[4][1]))
MaxX(pts) == Max2(Max2(pts[1][1], pts[2][1]), Max2(pts[3][1], pts[4][1]))
MinY(pts) == Min2(Min2(pts[1][2], pts[2][2]), Min2(pts[3][2], pts[4][2]))
MaxY(pts) == Max2(Max2(pts[1][2], pts[2][2]), Max2(pts[3][2], pts[4][2]))

\* area of the axis-aligned bounding box
AabbArea(pts) == (MaxX(pts) - MinX(pts)) * (MaxY(pts) - MinY(pts))

----------------------------------------------------------------------------
(* merge_detection_boxes *)

\* area_ratio >= 2.0
ReplaceRatio == 2

\* variant: the test `yolo_min_x > main_max_x` is missing
Overlaps_NoRightGap(y, m) ==
    ~ (MaxX(y) < MinX(m) \/
       MaxY(y) < MinY(m) \/ MinY(y) > MaxY(m))

\* `not (yolo_max_x < main_min_x or yolo_min_x > main_max_x or ...)`
Overlaps(y, m) ==
    ~ (MaxX(y) < MinX(m) \/ MinX(y) > MaxX(m) \/
       MaxY(y) < MinY(m) \/ MinY(y) > MaxY(m))

\* `contains`: the YOLO AABB fully encloses the primary AABB
Contains(y, m) ==
    /\ MinX(y) <= MinX(m) /\ MaxX(y) >= MaxX(m)
    /\ MinY(y) <= MinY(m) /\ MaxY(y) >= MaxY(m)

\* `area_ratio = yolo_area / main_area if main_area > 0 else 0`, kept as the
\* exact fraction <<numerator, denominator>>
AreaRatio(y, m) ==
    IF AabbArea(m) > 0 THEN <<AabbArea(y), AabbArea(m)>> ELSE <<0, 1>>

\* variant: the area test is strict (area_ratio > 2.0)
CanReplace_StrictRatio(y, m) ==
    /\ Contains(y, m)
    /\ AreaRatio(y, m)[1] > ReplaceRatio * AreaRatio(y, m)[2]

\* variant: the area test alone decides, without containment
CanReplace_RatioOnly(y, m) ==
    AreaRatio(y, m)[1] >= ReplaceRatio * AreaRatio(y, m)[2]

\* `contains and area_ratio >= 2.0`
CanReplace(y, m) ==
    /\ Contains(y, m)
    /\ AreaRatio(y, m)[1] >= ReplaceRatio * AreaRatio(y, m)[2]

\* variant: a YOLO box with a non-replacing overlap is dropped even if it
\* replaced another primary box (the two branches tested in the other order)
YoloBoxRemoved_OverlapFirst(can_replace, has_overlap_without_replace) ==
    has_overlap_without_replace

\* variant: a YOLO box that replaced nothing is never dropped
YoloBoxRemoved_Never(can_replace, has_overlap_without_replace) ==
    FALSE

\* `if can_replace: add  elif has_overlap_without_replace: remove`
YoloBoxRemoved(can_replace, has_overlap_without_replace) ==
    ~can_replace /\ has_overlap_without_replace

MainRef(i) == [src |-> "main", idx |-> i]
YoloRef(i) == [src |-> "yolo", idx |-> i]

\* variant: can_replace is not reset between auxiliary boxes
MergeDetectionBoxes_StickyCanReplace(yolo, main) ==
    IF Len(main) = 0 THEN [i \in 1..Len(yolo) |-> YoloRef(i)]
    ELSE IF Len(yolo) = 0 THEN [i \in 1..Len(main) |-> MainRef(i)]
    ELSE
      LET can_replace(yi) ==
              \E yj \in 1..yi : \E mi \in 1..Len(main) :
                  Overlaps(yolo[yj], main[mi]) /\ CanReplace(yolo[yj], main[mi])
          has_overlap_without_replace(yi) ==
              \E mi \in 1..Len(main) :
                  Overlaps(yolo[yi], main[mi]) /\ ~CanReplace(yolo[yi], main[mi])
          main_boxes_to_remove ==
              {mi \in 1..Len(main) :
                  \E yi \in 1..Len(yolo) :
                      Overlaps(yolo[yi], main[mi]) /\ CanReplace(yolo[yi], main[mi])}
          yolo_boxes_to_remove ==
              {yi \in 1..Len(yolo) :
                  YoloBoxRemoved(can_replace(yi), has_overlap_without_replace(yi))}
          keptMain == SelectSeq([i \in 1..Len(main) |-> MainRef(i)],
                                LAMBDA r : r.idx \notin main_boxes_to_remove)
          keptYolo == SelectSeq([i \in 1..Len(yolo) |-> YoloRef(i)],
                                LAMBDA r : r.idx \notin yolo_boxes_to_remove)
      IN  keptMain \o keptYolo

MergeDetectionBoxes(yolo, main) ==
    IF Len(main) = 0 THEN [i \in 1..Len(yolo) |-> YoloRef(i)]
    ELSE IF Len(yolo) = 0 THEN [i \in 1..Len(main) |-> MainRef(i)]
    ELSE
      LET can_replace(yi) ==
              \E mi \in 1..Len(main) :
                  Overlaps(yolo[yi], main[mi]) /\ CanReplace(yolo[yi], main[mi])
          has_overlap_without_replace(yi) ==
              \E mi \in 1..Len(main) :
                  Overlaps(yolo[yi], main[mi]) /\ ~CanReplace(yolo[yi], main[mi])
          main_boxes_to_remove ==
              {mi \in 1..Len(main) :
                  \E yi \in 1..Len(yolo) :
                      Overlaps(yolo[yi], main[mi]) /\ CanReplace(yolo[yi], main[mi])}
          yolo_boxes_to_remove ==
              {yi \in 1..Len(yolo) :
                  YoloBoxRemoved(can_replace(yi), has_overlap_without_replace(yi))}
          keptMain == SelectSeq([i \in 1..Len(main) |-> MainRef(i)],
                                LAMBDA r : r.idx \notin main_boxes_to_remove)
          keptYolo == SelectSeq([i \in 1..Len(yolo) |-> YoloRef(i)],
                                LAMBDA r : r.idx \notin yolo_boxes_to_remove)
      IN  keptMain \o keptYolo

\* boxes offered to the merge: every x interval of 0..MaxCoord (degenerate
\* ones included) combined with a short and a tall y extent
MergeYExtents == {<<0, 1>>, <<0, 2>>}
MergeBoxes ==
    {Rect(x1, ye[1], x2, ye[2]) :
        x1 \in 0..MaxCoord, x2 \in 0..MaxCoord, ye \in MergeYExtents}
MergeInputBoxes == {b \in MergeBoxes : b[1][1] <= b[2][1]}

DetectIdle ==
    /\ request = [none |-> TRUE]
    /\ frame = [none |-> TRUE]
    /\ image = [none |-> TRUE]
    /\ dpc = "idle"
    /\ passes = 0
    /\ detected = [none |-> TRUE]
    /\ heap = <<>>
    /\ ret = [none |-> TRUE]
    /\ log = <<>>

InitMerge ==
    /\ \E ny \in 0..MaxBoxes : \E nm \in 0..(MaxBoxes - ny) :
           /\ yolo_boxes \in [1..ny -> MergeInputBoxes]
           /\ main_boxes \in [1..nm -> MergeInputBoxes]
    /\ merged = <<>>
    /\ mpc = "input"
    /\ DetectIdle
    /\ CacheIdle
    /\ InferIdle
    /\ GeometryIdle

Merge ==
    /\ mpc = "input"
    /\ merged' = MergeDetectionBoxes(yolo_boxes, main_boxes)
    /\ mpc' = "merged"
    /\ UNCHANGED <<yolo_boxes, main_boxes>>
    /\ UNCHANGED <<detectVars, cacheVars, inferVars, geometryVars>>

NextMerge == Merge

SpecMerge == InitMerge /\ [][NextMerge]_vars

(* Inputs for the order properties of merge_detection_boxes: longer lists
   over a few boxes that enclose, overlap, touch nothing, or have no area *)
MaxPermuted == 4
OrderBoxes ==
    {Rect(0, 0, 1, 1), Rect(0, 0, 2, 1), Rect(0, 0, 2, 2),
     Rect(1, 0, 3, 1), Rect(3, 3, 4, 4), Rect(1, 1, 1, 2)}

InitMergeOrder ==
    /\ \E ny \in 0..MaxPermuted : \E nm \in 0..(MaxPermuted - ny) :
           /\ yolo_boxes \in [1..ny -> OrderBoxes]
           /\ main_boxes \in [1..nm -> OrderBoxes]
    /\ merged = <<>>
    /\ mpc = "input"
    /\ DetectIdle
    /\ CacheIdle
    /\ InferIdle
    /\ GeometryIdle

SpecMergeOrder == InitMergeOrder /\ [][NextMerge]_vars

----------------------------------------------------------------------------
(* Quadrilateral accessors used by CommonDetector (manga_translator/utils is
   not part of the sources at hand; they follow the data model: derived
   axis-aligned bounding box, its area, and long side / short side) *)

\* Python's None
None == [none |-> TRUE]

\* Quadrilateral(pts, text, prob): a fresh box; `id` stands for the text and
\* score carried over from the detector's box
Quadrilateral(pts, id) == [pts |-> pts, id |-> id]

\* txtln.xyxy
Xyxy(q) == <<MinX(q.pts), MinY(q.pts), MaxX(q.pts), MaxY(q.pts)>>

\* x.area
Area(q) == AabbArea(q.pts)

\* txtln.aspect_ratio as the fraction <<long side, short side>>
AspectRatio(q) ==
    LET w == MaxX(q.pts) - MinX(q.pts)
        h == MaxY(q.pts) - MinY(q.pts)
    IN  <<Max2(w, h), Min2(w, h)>>

----------------------------------------------------------------------------
(* CommonDetector.detect *)

\* minimum_image_size = 400
minimum_image_size == 400
\* `x.area <= 16`
MinBoxArea == 16
\* min_box_area_ratio: float = 0.0009, as <<numerator, denominator>>
DefaultMinBoxAreaRatio == <<9, 10000>>

\* An image is its size and the filters its pixels went through.
AddRotation(img) ==
    [w |-> img.h, h |-> img.w, filters |-> Append(img.filters, "rotate")]

\* np.rot90(image, k=-1) on a point: (x, y) of an image of height img_h lies
\* at (img_h - y, x) in the rotated image
RotatedPoint(p, img_h) == <<img_h - p[2], p[1]>>

AddBorder(img, target_side_length) ==
    LET side == Max2(Max2(img.w, img.h), target_side_length)
    IN  [w |-> side, h |-> side, filters |-> Append(img.filters, "border")]

AddInversion(img) == [img EXCEPT !.filters = Append(@, "invert")]

AddGammaCorrection(img) == [img EXCEPT !.filters = Append(@, "gamma")]

\* add_border = min(img_w, img_h) < minimum_image_size
NeedsBorder(f) == Min2(f.image.w, f.image.h) < minimum_image_size

\* variant: the border is added before the rotation
ApplyFilters_BorderFirst(f) ==
    LET i1 == IF NeedsBorder(f) THEN AddBorder(f.image, minimum_image_size) ELSE f.image
        i2 == IF f.rotate THEN AddRotation(i1) ELSE i1
        i3 == IF f.invert THEN AddInversion(i2) ELSE i2
        i4 == IF f.gamma_correct THEN AddGammaCorrection(i3) ELSE i3
    IN  i4

\* lines 24-35: rotate, border, invert, gamma, in this order
ApplyFilters(f) ==
    LET i1 == IF f.rotate THEN AddRotation(f.image) ELSE f.image
        i2 == IF NeedsBorder(f) THEN AddBorder(i1, minimum_image_size) ELSE i1
        i3 == IF f.invert THEN AddInversion(i2) ELSE i2
        i4 == IF f.gamma_correct THEN AddGammaCorrection(i3) ELSE i3
    IN  i4

\* `x.area <= 16 or area_ratio <= min_box_area_ratio` sends x to filtered_out
PassesAreaFilter(q, img_total_pixels, min_box_area_ratio) ==
    ~ ( \/ Area(q) <= MinBoxArea
        \/ Area(q) * min_box_area_ratio[2] <= min_box_area_ratio[1] * img_total_pixels )

\* lines 45-59, on the result record of _detect
AreaFilter(f, r) ==
    [r EXCEPT !.textlines =
        SelectSeq(@, LAMBDA q :
            PassesAreaFilter(q, f.image.h * f.image.w, f.min_box_area_ratio))]

Clip(v, lo, hi) == IF v < lo THEN lo ELSE IF v > hi THEN hi ELSE v

\* `if txtln.xyxy[0] >= old_w and txtln.xyxy[1] >= old_h: continue`
InBorder(q, old_w, old_h) == Xyxy(q)[1] >= old_w /\ Xyxy(q)[2] >= old_h

\* points[:,0] = np.clip(points[:,0], 0, old_w);
\* points[:,1] = np.clip(points[:,1], 0, old_h)
ClipPoints(points, old_w, old_h) ==
    [i \in 1..4 |-> <<Clip(points[i][1], 0, old_w), Clip(points[i][2], 0, old_h)>>]

\* np.clip of the x and y columns, then a new Quadrilateral
ClampToImage(q, old_w, old_h) ==
    Quadrilateral(ClipPoints(q.pts, old_w, old_h), q.id)

\* cv2.resize(m, (new_w, new_h)) followed by m[:old_h, :old_w]
ResizeAndCrop(m, new_w, new_h, old_w, old_h) ==
    [w |-> Min2(old_w, new_w), h |-> Min2(old_h, new_h)]

\* line 106: cv2.resize(raw_mask, ...) is not guarded and raises on None
RemoveBorderRaises(r) == r.raw_mask = None

\* _remove_border(image, old_w, old_h, textlines, raw_mask, mask), when it
\* does not raise
RemoveBorder(img, old_w, old_h, r) ==
    LET kept == SelectSeq(r.textlines, LAMBDA q : ~InBorder(q, old_w, old_h))
    IN  [r EXCEPT
            !.textlines = [i \in 1..Len(kept) |-> ClampToImage(kept[i], old_w, old_h)],
            !.raw_mask = ResizeAndCrop(@, img.w, img.h, old_w, old_h),
            !.mask = IF @ = None THEN None
                     ELSE ResizeAndCrop(@, img.w, img.h, old_w, old_h)]

\* lines 114-119, seen from the box objects _remove_border is given (objs[i]
\* is the corner array of the box with id i): `points = txtln.pts` is the
\* box's own array, and the two np.clip results are assigned into it
RemoveBorderInPlace(objs, textlines, old_w, old_h) ==
    [i \in 1..Len(objs) |->
        IF \E k \in 1..Len(textlines) :
              textlines[k].id = i /\ ~InBorder(textlines[k], old_w, old_h)
        THEN ClipPoints(objs[i], old_w, old_h)
        ELSE objs[i]]

\* np.rot90(m)
Rot90(m) == [w |-> m.h, h |-> m.w]

\* variant: the axes are swapped without the shift by img_h
UnrotatePts_SwapOnly(pts, img_h) == [i \in 1..4 |-> <<pts[i][2], pts[i][1]>>]

\* rotated_pts = pts[:, [1, 0]]; rotated_pts[:, 1] = -rotated_pts[:, 1] + img_h
UnrotatePts(pts, img_h) == [i \in 1..4 |-> <<pts[i][2], -pts[i][1] + img_h>>]

\* line 128: np.rot90(raw_mask) is not guarded and raises on None
RemoveRotationRaises(r) == r.raw_mask = None

\* _remove_rotation(textlines, raw_mask, mask, img_w, img_h), when it does
\* not raise
RemoveRotation(r, img_w, img_h) ==
    [r EXCEPT
        !.textlines = [i \in 1..Len(@) |->
                          Quadrilateral(UnrotatePts(@[i].pts, img_h), @[i].id)],
        !.raw_mask = Rot90(@),
        !.mask = IF @ = None THEN None ELSE Rot90(@)]

\* lines 146-147, seen from the box objects _remove_rotation is given:
\* txtln.pts[:,[1,0]] is a copy (index array), the assignment goes into the copy
RemoveRotationInPlace(objs, textlines) == objs

\* 'h' if txtln.aspect_ratio > 1 else 'v'
Orientation(q) == IF AspectRatio(q)[1] > AspectRatio(q)[2] THEN "h" ELSE "v"

CountOrientation(textlines, o) ==
    Cardinality({i \in 1..Len(textlines) : Orientation(textlines[i]) = o})

\* variant: with no boxes the first pass stands
MajorityOrientation_EmptyIsVertical(textlines) ==
    IF Len(textlines) > 0
    THEN IF CountOrientation(textlines, "h") > CountOrientation(textlines, "v") THEN "h"
         ELSE IF CountOrientation(textlines, "v") > CountOrientation(textlines, "h") THEN "v"
         ELSE Orientation(textlines[1])
    ELSE "v"

\* lines 75-79: Counter(orientations).most_common(1)[0][0] (on a tie the
\* orientation counted first, i.e. that of the first box), 'h' with no boxes
MajorityOrientation(textlines) ==
    IF Len(textlines) > 0
    THEN IF CountOrientation(textlines, "h") > CountOrientation(textlines, "v") THEN "h"
         ELSE IF CountOrientation(textlines, "v") > CountOrientation(textlines, "h") THEN "v"
         ELSE Orientation(textlines[1])
    ELSE "h"

\* lines 44-72: the result of _detect after the area filter and, with a
\* border, after _remove_border
PassResult(f, img, det) ==
    LET filtered == AreaFilter(f, det)
    IN  IF NeedsBorder(f)
        THEN RemoveBorder(img, f.image.w, f.image.h, filtered)
        ELSE filtered

\* line 72 raises: the border is to be removed and there is no raw mask
PassRaises(f, det) == NeedsBorder(f) /\ RemoveBorderRaises(AreaFilter(f, det))

\* the box objects of the pass after lines 44-72
PassHeap(f, det, objs) ==
    IF NeedsBorder(f)
    THEN RemoveBorderInPlace(objs, AreaFilter(f, det).textlines, f.image.w, f.image.h)
    ELSE objs

\* lines 73-80: the pass ends in the recursive call
WantsRetry(f, r) == f.auto_rotate /\ MajorityOrientation(r.textlines) = "h"

\* variant: the retry keeps auto_rotate
RetryFrame_KeepAutoRotate(f, img) ==
    [image |-> f.image, rotate |-> ~f.rotate, auto_rotate |-> f.auto_rotate,
     invert |-> f.invert, gamma_correct |-> f.gamma_correct,
     min_box_area_ratio |-> DefaultMinBoxAreaRatio, self |-> f.self]

\* variant: the retry gets the filtered image instead of orig_image
RetryFrame_FilteredImage(f, img) ==
    [image |-> img, rotate |-> ~f.rotate, auto_rotate |-> FALSE,
     invert |-> f.invert, gamma_correct |-> f.gamma_correct,
     min_box_area_ratio |-> DefaultMinBoxAreaRatio, self |-> f.self]

\* lines 82-83: self.detect(orig_image, ..., rotate=(not rotate),
\* auto_rotate=False, verbose=verbose); min_box_area_ratio is not passed on
\* and takes its default
RetryFrame(f, img) ==
    [image |-> f.image, rotate |-> ~f.rotate, auto_rotate |-> FALSE,
     invert |-> f.invert, gamma_correct |-> f.gamma_correct,
     min_box_area_ratio |-> DefaultMinBoxAreaRatio, self |-> f.self]

\* line 85 raises: the rotation is to be removed and there is no raw mask
FinalRaises(f, r) == f.rotate /\ RemoveRotationRaises(r)

\* lines 84-87
FinalResult(f, r) ==
    IF f.rotate THEN RemoveRotation(r, f.image.w, f.image.h) ELSE r

\* the box objects of the pass after lines 84-85
FinalHeap(f, r, objs) ==
    IF f.rotate THEN RemoveRotationInPlace(objs, r.textlines) ELSE objs

\* steps of one invocation, in program order
FilterLog(f) ==
    (IF f.rotate THEN <<"rotate">> ELSE <<>>) \o
    (IF NeedsBorder(f) THEN <<"border">> ELSE <<>>) \o
    (IF f.invert THEN <<"invert">> ELSE <<>>) \o
    (IF f.gamma_correct THEN <<"gamma">> ELSE <<>>)
PostLog(f) ==
    <<"area_filter">> \o (IF NeedsBorder(f) THEN <<"remove_border">> ELSE <<>>)

(* Inputs of the explored calls *)
ImageSizes == {<<300, 200>>, <<300, 300>>, <<500, 400>>}
MinBoxAreaRatios == {DefaultMinBoxAreaRatio, <<1, 10>>}
\* the detector detect() is called on: one whose _detect returns masks, and
\* the auxiliary OBB detector
Selves == {"default", "yolo_obb"}
Requests ==
    {[image |-> [w |-> sz[1], h |-> sz[2], filters |-> <<>>],
      rotate |-> ro, auto_rotate |-> ar, invert |-> iv, gamma_correct |-> ga,
      min_box_area_ratio |-> mr, self |-> se] :
        sz \in ImageSizes, ro \in BOOLEAN, ar \in BOOLEAN, iv \in BOOLEAN,
        ga \in BOOLEAN, mr \in MinBoxAreaRatios, se \in Selves}

\* what _detect may report: boxes inside the image it was given, spanning a
\* sliver, a block from the origin, or the last 50 pixels of a side
Spans(side) == {<<0, 4>>, <<0, 100>>, <<side - 50, side>>}
DetectorBoxes(img) ==
    {Rect(xs[1], ys[1], xs[2], ys[2]) : xs \in Spans(img.w), ys \in Spans(img.h)}

\* YOLOOBBDetector._infer: `return textlines, None, None`
YoloMasks == [raw_mask |-> None, mask |-> None]

\* the other detectors return a raw mask and a mask of the resolution of the
\* image they are given
DefaultMasks(img) ==
    [raw_mask |-> [w |-> img.w, h |-> img.h], mask |-> [w |-> img.w, h |-> img.h]]

\* `textlines, raw_mask, mask = await self._detect(...)`: the masks of the
\* detector detect() is called on
DetectMasks(self, img) ==
    IF self = "yolo_obb" THEN YoloMasks ELSE DefaultMasks(img)

NoValue == [none |-> TRUE]

MergeIdle ==
    /\ yolo_boxes = <<>>
    /\ main_boxes = <<>>
    /\ merged = <<>>
    /\ mpc = "idle"

InitDetect ==
    /\ request \in Requests
    /\ frame = request
    /\ image = NoValue
    /\ dpc = "call"
    /\ passes = 0
    /\ detected = NoValue
    /\ heap = <<>>
    /\ ret = NoValue
    /\ log = <<>>
    /\ MergeIdle
    /\ CacheIdle
    /\ InferIdle
    /\ GeometryIdle

\* detect() entered: the filters are applied, up to `await self._detect(...)`
EnterDetect ==
    /\ dpc = "call"
    /\ image' = ApplyFilters(frame)
    /\ log' = FilterLog(frame)
    /\ detected' = NoValue
    /\ heap' = <<>>
    /\ dpc' = "await"
    /\ UNCHANGED <<request, frame, passes, ret>>
    /\ UNCHANGED <<mergeVars, cacheVars, inferVars, geometryVars>>

\* _detect returns some boxes lying in the image it was given, and masks
RunDetect ==
    /\ dpc = "await"
    /\ \E n \in 0..MaxTextlines : \E boxes \in [1..n -> DetectorBoxes(image)] :
          /\ detected' = [textlines |-> [i \in 1..n |-> Quadrilateral(boxes[i], i)],
                          raw_mask |-> DetectMasks(frame.self, image).raw_mask,
                          mask |-> DetectMasks(frame.self, image).mask,
                          run |-> passes + 1]
          /\ heap' = boxes
    /\ passes' = passes + 1
    /\ log' = Append(log, "_detect")
    /\ dpc' = "post"
    /\ UNCHANGED <<request, frame, image, ret>>
    /\ UNCHANGED <<mergeVars, cacheVars, inferVars, geometryVars>>

\* the border removal (line 72) or the rotation removal (line 85) raises
Raise ==
    /\ dpc = "post"
    /\ \/ PassRaises(frame, detected)
       \/ /\ ~PassRaises(frame, detected)
          /\ ~WantsRetry(frame, PassResult(frame, image, detected))
          /\ FinalRaises(frame, PassResult(frame, image, detected))
    /\ log' = Append(log, "area_filter")
    /\ dpc' = "raised"
    /\ UNCHANGED <<request, frame, image, passes, detected, heap, ret>>
    /\ UNCHANGED <<mergeVars, cacheVars, inferVars, geometryVars>>

\* area filter, border removal, then the recursive call with the rotation toggled
Retry ==
    /\ dpc = "post"
    /\ ~PassRaises(frame, detected)
    /\ WantsRetry(frame, PassResult(frame, image, detected))
    /\ frame' = RetryFrame(frame, image)
    /\ heap' = PassHeap(frame, detected, heap)
    /\ log' = <<>>
    /\ dpc' = "call"
    /\ UNCHANGED <<request, image, passes, detected, ret>>
    /\ UNCHANGED <<mergeVars, cacheVars, inferVars, geometryVars>>

\* area filter, border removal, rotation removal, return
Return ==
    /\ dpc = "post"
    /\ ~PassRaises(frame, detected)
    /\ ~WantsRetry(frame, PassResult(frame, image, detected))
    /\ ~FinalRaises(frame, PassResult(frame, image, detected))
    /\ ret' = FinalResult(frame, PassResult(frame, image, detected))
    /\ heap' = FinalHeap(frame, PassResult(frame, image, detected),
                         PassHeap(frame, detected, heap))
    /\ log' = log \o PostLog(frame) \o
                (IF frame.rotate THEN <<"remove_rotation">> ELSE <<>>)
    /\ dpc' = "done"
    /\ UNCHANGED <<request, frame, image, passes, detected>>
    /\ UNCHANGED <<mergeVars, cacheVars, inferVars, geometryVars>>

NextDetect == EnterDetect \/ RunDetect \/ Raise \/ Retry \/ Return

SpecDetect == InitDetect /\ [][NextDetect]_vars

----------------------------------------------------------------------------
(* The detector cache: get_detector, get_detector_instance, unload.
   A detector object is named by its index in `instances`; 0 stands for
   None.  The ModelWrapper base class (manga_translator/utils) is not part
   of the sources at hand: an object carries the `loaded` flag of its model
   lifecycle and, for the properties, the number of times its load started. *)

\* get_detector / unload calls explored by SpecCache
MaxCalls == 4

\* the keys of DETECTORS
DETECTORS == {"default", "dbconvnext", "ctd", "craft", "paddle", "none"}

\* the registered classes deriving from OfflineDetector (dispatch tests
\* isinstance(detector, OfflineDetector))
OfflineDetectors == DETECTORS \ {"none"}

\* dict.get(k), d[k] = v, d.pop(k, None)
DictGet(d, k) == IF k \in DOMAIN d THEN d[k] ELSE 0
DictSet(d, k, v) == [x \in (DOMAIN d) \cup {k} |-> IF x = k THEN v ELSE d[x]]
DictPop(d, k) == [x \in (DOMAIN d) \ {k} |-> d[x]]

\* detector(*args, **kwargs): a new object, not loaded
Construct(insts, cls, args) ==
    Append(insts, [cls |-> cls, args |-> args, loaded |-> FALSE, loads |-> 0])

\* outcome of a call: the exception raised ("" for none), the value returned,
\* and the cache and the objects after the call
Outcome(raised, value, cache, insts) ==
    [raised |-> raised, value |-> value, cache |-> cache, insts |-> insts]

GetDetector_NoMemo(cache, insts, key, args, ctor_raises) ==
    IF key \notin DETECTORS THEN Outcome("ValueError", 0, cache, insts)
    ELSE IF ctor_raises THEN Outcome("Exception", 0, cache, insts)
    ELSE Outcome("", Len(insts) + 1, DictSet(cache, key, Len(insts) + 1),
                 Construct(insts, key, args))

\* get_detector(key, *args, **kwargs); ctor_raises: the constructor raises
GetDetector(cache, insts, key, args, ctor_raises) ==
    IF key \notin DETECTORS THEN Outcome("ValueError", 0, cache, insts)
    ELSE IF DictGet(cache, key) = 0
    THEN IF ctor_raises THEN Outcome("Exception", 0, cache, insts)
         ELSE Outcome("", Len(insts) + 1, DictSet(cache, key, Len(insts) + 1),
                      Construct(insts, key, args))
    ELSE Outcome("", cache[key], cache, insts)

\* get_detector_instance(key, detector_class)
GetDetectorInstance(cache, insts, key, ctor_raises) ==
    IF key \notin DOMAIN cache
    THEN IF ctor_raises THEN Outcome("Exception", 0, cache, insts)
         ELSE Outcome("", Len(insts) + 1, DictSet(cache, key, Len(insts) + 1),
                      Construct(insts, key, <<>>))
    ELSE Outcome("", cache[key], cache, insts)

\* unload(detector_key)
Unload(cache, key) == DictPop(cache, key)

(* Inputs of the explored calls *)
CallKeys == {"default", "ctd", "yolo_obb"}
CallArgs == {<<>>, <<"cuda">>}

HistoryEntry(op, key, args, out) ==
    [op |-> op, key |-> key, args |-> args, raised |-> out.raised,
     value |-> out.value, cache |-> out.cache, built |-> Len(out.insts)]

InitCache ==
    /\ detector_cache = <<>>
    /\ instances = <<>>
    /\ history = <<>>
    /\ task = <<>>
    /\ MergeIdle
    /\ DetectIdle
    /\ InferIdle
    /\ GeometryIdle

CallGetDetector ==
    /\ Len(history) < MaxCalls
    /\ \E key \in CallKeys : \E args \in CallArgs :
          LET out == GetDetector(detector_cache, instances, key, args, FALSE) IN
            /\ detector_cache' = out.cache
            /\ instances' = out.insts
            /\ history' = Append(history, HistoryEntry("get_detector", key, args, out))
    /\ UNCHANGED task
    /\ UNCHANGED <<mergeVars, detectVars, inferVars, geometryVars>>

CallGetDetectorInstance ==
    /\ Len(history) < MaxCalls
    /\ LET out == GetDetectorInstance(detector_cache, instances, "yolo_obb", FALSE) IN
         /\ detector_cache' = out.cache
         /\ instances' = out.insts
         /\ history' = Append(history,
                              HistoryEntry("get_detector_instance", "yolo_obb", <<>>, out))
    /\ UNCHANGED task
    /\ UNCHANGED <<mergeVars, detectVars, inferVars, geometryVars>>

CallUnload ==
    /\ Len(history) < MaxCalls
    /\ \E key \in CallKeys :
          LET out == Outcome("", 0, Unload(detector_cache, key), instances) IN
            /\ detector_cache' = out.cache
            /\ history' = Append(history, HistoryEntry("unload", key, <<>>, out))
    /\ UNCHANGED <<instances, task>>
    /\ UNCHANGED <<mergeVars, detectVars, inferVars, geometryVars>>

NextCache == CallGetDetector \/ CallGetDetectorInstance \/ CallUnload

SpecCache == InitCache /\ [][NextCache]_vars

----------------------------------------------------------------------------
(* dispatch: coroutines that interleave at their awaits.  A step of a caller
   is the code it runs from one await to the next. *)

\* ModelWrapper.load(device): nothing to do for a loaded object; otherwise
\* the load starts (download of missing weights, then _load) and the object
\* is marked loaded when it completes
NeedsLoad(insts, id) == ~insts[id].loaded
StartLoad(insts, id) == [insts EXCEPT ![id].loads = @ + 1]
FinishLoad(insts, id) == [insts EXCEPT ![id].loaded = TRUE]

\* variant: an exception of the primary path is swallowed
OnPrimaryException_ReturnEmpty ==
    [raised |-> FALSE,
     value |-> [textlines |-> <<>>, mask |-> NoValue, raw_image |-> NoValue]]

\* lines 50-53 are outside any try: the exception leaves dispatch
OnPrimaryException == [raised |-> TRUE, value |-> NoValue]

\* variant: the handler re-raises
OnAuxException_Reraise(main) == [raised |-> TRUE, value |-> NoValue]

\* `except Exception: ... return main_textlines, mask, raw_image`
OnAuxException(main) == [raised |-> FALSE, value |-> main]

\* `return combined_textlines, mask, raw_image`
Combined(yolo_textlines, main) ==
    [raised |-> FALSE,
     value |-> [textlines |-> MergeDetectionBoxes(yolo_textlines, main.textlines),
                mask |-> main.mask, raw_image |-> main.raw_image]]

\* `return main_textlines, mask, raw_image` (line 57); textlines are named
\* as merge_detection_boxes names them
PrimaryOnly(main) ==
    [raised |-> FALSE,
     value |-> [textlines |-> [i \in 1..Len(main.textlines) |-> MainRef(i)],
                mask |-> main.mask, raw_image |-> main.raw_image]]

\* the caller is over: `step` names the step that raised, "" if none did
Finish(t, step, result) == [t EXCEPT !.pc = "done", !.failed = step, !.result = result]

(* Inputs of the explored calls *)
Callers == {1, 2}
DispatchKeys == {"default", "none"}
PrimaryResults ==
    {[textlines |-> tl, mask |-> "mask", raw_image |-> "raw_image"] :
        tl \in {<<>>, <<Rect(0, 0, 2, 2)>>}}
YoloResults == {<<>>, <<Rect(0, 0, 1, 1)>>, <<Rect(0, 0, 4, 4)>>}
\* yolo_obb_iou: the default of the signature (0.6) and a stricter value
YoloObbIous == {<<3, 5>>, <<3, 10>>}
InitialTasks ==
    {[pc |-> "call", key |-> k, use_yolo_obb |-> u, yolo_obb_iou |-> iou,
      detector |-> 0, yolo_detector |-> 0, main |-> NoValue, failed |-> "",
      result |-> NoValue] :
        k \in DispatchKeys, u \in BOOLEAN, iou \in YoloObbIous}

InitDispatch ==
    /\ detector_cache = <<>>
    /\ instances = <<>>
    /\ history = <<>>
    /\ task \in [Callers -> InitialTasks]
    /\ MergeIdle
    /\ DetectIdle
    /\ InferIdle
    /\ GeometryIdle

\* lines 50-52: get_detector, then load up to its first suspension
Start(c) ==
    /\ task[c].pc = "call"
    /\ \E ctor_raises \in BOOLEAN :
          LET out == GetDetector(detector_cache, instances, task[c].key, <<>>, ctor_raises) IN
            /\ detector_cache' = out.cache
            /\ IF out.raised # ""
               THEN /\ instances' = out.insts
                    /\ task' = [task EXCEPT ![c] = Finish(@, "get_detector", OnPrimaryException)]
               ELSE IF task[c].key \in OfflineDetectors /\ NeedsLoad(out.insts, out.value)
               THEN /\ instances' = StartLoad(out.insts, out.value)
                    /\ task' = [task EXCEPT ![c].detector = out.value, ![c].pc = "load"]
               ELSE /\ instances' = out.insts
                    /\ task' = [task EXCEPT ![c].detector = out.value, ![c].pc = "detect"]
    /\ UNCHANGED history
    /\ UNCHANGED <<mergeVars, detectVars, inferVars, geometryVars>>

\* line 52 resumes: the load ends or raises; then line 53 up to its await
LoadDone(c) ==
    /\ task[c].pc = "load"
    /\ \E ok \in BOOLEAN :
          IF ok
          THEN /\ instances' = FinishLoad(instances, task[c].detector)
               /\ task' = [task EXCEPT ![c].pc = "detect"]
          ELSE /\ instances' = instances
               /\ task' = [task EXCEPT ![c] = Finish(@, "load", OnPrimaryException)]
    /\ UNCHANGED <<detector_cache, history>>
    /\ UNCHANGED <<mergeVars, detectVars, inferVars, geometryVars>>

\* line 53 resumes: detect raises
PrimaryDetectRaises(c) ==
    /\ task[c].pc = "detect"
    /\ task' = [task EXCEPT ![c] = Finish(@, "detect", OnPrimaryException)]
    /\ UNCHANGED <<detector_cache, instances, history>>
    /\ UNCHANGED <<mergeVars, detectVars, inferVars, geometryVars>>

\* line 53 resumes with the primary result; lines 56-62 up to the next await
PrimaryDetectDone(c) ==
    /\ task[c].pc = "detect"
    /\ \E main \in PrimaryResults : \E ctor_raises \in BOOLEAN :
          IF ~task[c].use_yolo_obb
          THEN /\ task' = [task EXCEPT ![c] = Finish([@ EXCEPT !.main = main], "",
                                                      PrimaryOnly(main))]
               /\ UNCHANGED <<detector_cache, instances>>
          ELSE LET out == GetDetectorInstance(detector_cache, instances, "yolo_obb",
                                              ctor_raises) IN
                 /\ detector_cache' = out.cache
                 /\ IF out.raised # ""
                    THEN /\ instances' = out.insts
                         /\ task' = [task EXCEPT ![c] = Finish([@ EXCEPT !.main = main],
                                                                "get_detector_instance",
                                                                OnAuxException(PrimaryOnly(main).value))]
                    ELSE IF NeedsLoad(out.insts, out.value)
                    THEN /\ instances' = StartLoad(out.insts, out.value)
                         /\ task' = [task EXCEPT ![c].main = main,
                                                 ![c].yolo_detector = out.value,
                                                 ![c].pc = "yolo_load"]
                    ELSE /\ instances' = out.insts
                         /\ task' = [task EXCEPT ![c].main = main,
                                                 ![c].yolo_detector = out.value,
                                                 ![c].pc = "yolo_detect"]
    /\ UNCHANGED history
    /\ UNCHANGED <<mergeVars, detectVars, inferVars, geometryVars>>

\* line 62 resumes: the auxiliary load ends or raises; then lines 65-68
YoloLoadDone(c) ==
    /\ task[c].pc = "yolo_load"
    /\ \E ok \in BOOLEAN :
          IF ok
          THEN /\ instances' = FinishLoad(instances, task[c].yolo_detector)
               /\ task' = [task EXCEPT ![c].pc = "yolo_detect"]
          ELSE /\ instances' = instances
               /\ task' = [task EXCEPT ![c] =
                              Finish(@, "yolo_load",
                                     OnAuxException(PrimaryOnly(task[c].main).value))]
    /\ UNCHANGED <<detector_cache, history>>
    /\ UNCHANGED <<mergeVars, detectVars, inferVars, geometryVars>>

\* lines 65-68 resume: the auxiliary detect raises
YoloDetectRaises(c) ==
    /\ task[c].pc = "yolo_detect"
    /\ task' = [task EXCEPT ![c] =
                   Finish(@, "yolo_detect", OnAuxException(PrimaryOnly(task[c].main).value))]
    /\ UNCHANGED <<detector_cache, instances, history>>
    /\ UNCHANGED <<mergeVars, detectVars, inferVars, geometryVars>>

\* lines 65-68 resume with the auxiliary boxes; lines 71-77, where the merge
\* may raise
YoloDetectDone(c) ==
    /\ task[c].pc = "yolo_detect"
    /\ \E yolo_textlines \in YoloResults : \E merge_raises \in BOOLEAN :
          task' = [task EXCEPT ![c] =
                      IF merge_raises
                      THEN Finish(@, "merge", OnAuxException(PrimaryOnly(task[c].main).value))
                      ELSE Finish(@, "", Combined(yolo_textlines, task[c].main))]
    /\ UNCHANGED <<detector_cache, instances, history>>
    /\ UNCHANGED <<mergeVars, detectVars, inferVars, geometryVars>>

NextDispatch ==
    \E c \in Callers :
        \/ Start(c)
        \/ LoadDone(c)
        \/ PrimaryDetectRaises(c)
        \/ PrimaryDetectDone(c)
        \/ YoloLoadDone(c)
        \/ YoloDetectRaises(c)
        \/ YoloDetectDone(c)

SpecDispatch == InitDispatch /\ [][NextDispatch]_vars

----------------------------------------------------------------------------
(* Exact arithmetic for the float computations of yolo_obb.py: a number is
   the fraction <<numerator, denominator>> in lowest terms, denominator > 0.
   Rounding errors of the floats are not modelled. *)

Abs(n) == IF n < 0 THEN -n ELSE n

RECURSIVE Gcd(_, _)
Gcd(a, b) == IF b = 0 THEN a ELSE Gcd(b, a % b)

Frac(n, d) ==
    LET g == Gcd(Abs(n), Abs(d))
        s == IF d < 0 THEN -1 ELSE 1
    IN  <<(s * n) \div g, (s * d) \div g>>

FInt(n) == <<n, 1>>
FAdd(a, b) == Frac(a[1] * b[2] + b[1] * a[2], a[2] * b[2])
FSub(a, b) == Frac(a[1] * b[2] - b[1] * a[2], a[2] * b[2])
FMul(a, b) == Frac(a[1] * b[1], a[2] * b[2])
FDiv(a, b) == Frac(a[1] * b[2], a[2] * b[1])
FLt(a, b) == a[1] * b[2] < b[1] * a[2]
FLe(a, b) == a[1] * b[2] <= b[1] * a[2]
FMin(a, b) == IF FLe(a, b) THEN a ELSE b
FMax(a, b) == IF FLe(b, a) THEN a ELSE b

\* np.clip(x, lo, hi)
FClip(x, lo, hi) == FMin(FMax(x, FInt(lo)), FInt(hi))

Floor(a) == a[1] \div a[2]

\* Python round(): to the nearest integer, a tie to the even one
PyRound(a) ==
    LET f == Floor(a)
        r == FSub(a, FInt(f))
    IN  IF FLt(r, <<1, 2>>) THEN f
        ELSE IF FLt(<<1, 2>>, r) THEN f + 1
        ELSE IF f % 2 = 0 THEN f ELSE f + 1

\* ndarray.astype(np.int32): the fraction is dropped, toward zero
Trunc(a) == IF a[1] >= 0 THEN a[1] \div a[2] ELSE -((-a[1]) \div a[2])

----------------------------------------------------------------------------
(* YOLOOBBDetector: letterbox *)

\* self.input_size
input_size == 640

\* self.classes
classes == <<"balloon", "qipao", "shuqing", "changfangtiao", "hengxie">>

\* pad_w, pad_h: `round((new_shape - new_unpad) / 2 - 0.1)`
Pad(total, new_unpad) == PyRound(FSub(Frac(total - new_unpad, 2), <<1, 10>>))

\* the image returned: resized, then a border of pad_h rows above and below
\* and pad_w columns left and right
Bordered(gain, new_unpad_w, new_unpad_h, pad_w, pad_h) ==
    [shape |-> <<new_unpad_h + pad_h + pad_h, new_unpad_w + pad_w + pad_w>>,
     gain |-> gain,
     pad |-> <<pad_w, pad_h>>]

Resized(new_shape, gain, new_unpad_w, new_unpad_h) ==
    Bordered(gain, new_unpad_w, new_unpad_h,
             Pad(new_shape[2], new_unpad_w), Pad(new_shape[1], new_unpad_h))

Scaled(shape, new_shape, gain) ==
    Resized(new_shape, gain,
            PyRound(FMul(FInt(shape[2]), gain)), PyRound(FMul(FInt(shape[1]), gain)))

\* letterbox(img, new_shape): shapes are <<height, width>>
Letterbox(shape, new_shape) ==
    Scaled(shape, new_shape,
           FMin(Frac(new_shape[1], shape[1]), Frac(new_shape[2], shape[2])))

\* preprocess(img): the blob keeps the letterboxed height and width
Preprocess(img_shape) == Letterbox(img_shape, <<input_size, input_size>>)

----------------------------------------------------------------------------
(* YOLOOBBDetector: decoding of the model output.  A box is <<cx, cy, w, h>>,
   a point <<x, y>>; an angle is a number of quarter turns. *)

\* variant: the padding is subtracted from the size as well (the xyxy branch
\* applied to an xywh box)
ScaleBoxes_PadOnSize(box, img0_shape, gain, pad, xywh) ==
    <<FClip(FDiv(FSub(box[1], FInt(pad[1])), gain), 0, img0_shape[2]),
      FClip(FDiv(FSub(box[2], FInt(pad[2])), gain), 0, img0_shape[1]),
      FDiv(FSub(box[3], FInt(pad[1])), gain),
      FDiv(FSub(box[4], FInt(pad[2])), gain)>>

\* scale_boxes, for one row of `boxes`: padding removed, divided by gain,
\* then clipped (the centre only when xywh)
ScaleBoxes(box, img0_shape, gain, pad, xywh) ==
    <<FClip(FDiv(FSub(box[1], FInt(pad[1])), gain), 0, img0_shape[2]),
      FClip(FDiv(FSub(box[2], FInt(pad[2])), gain), 0, img0_shape[1]),
      IF xywh THEN FDiv(box[3], gain)
      ELSE FClip(FDiv(FSub(box[3], FInt(pad[1])), gain), 0, img0_shape[2]),
      IF xywh THEN FDiv(box[4], gain)
      ELSE FClip(FDiv(FSub(box[4], FInt(pad[2])), gain), 0, img0_shape[1])>>

\* np.cos / np.sin of a quarter-turn angle
Cos(angle) == IF angle = 0 THEN FInt(1) ELSE FInt(0)
Sin(angle) == IF angle = 0 THEN FInt(0) ELSE FInt(1)

\* pt1 = ctr + vec1 + vec2, pt2 = ctr + vec1 - vec2, pt3 = ctr - vec1 - vec2,
\* pt4 = ctr - vec1 + vec2
CornerPoints(cx, cy, vec1_x, vec1_y, vec2_x, vec2_y) ==
    << <<FAdd(FAdd(cx, vec1_x), vec2_x), FAdd(FAdd(cy, vec1_y), vec2_y)>>,
       <<FSub(FAdd(cx, vec1_x), vec2_x), FSub(FAdd(cy, vec1_y), vec2_y)>>,
       <<FSub(FSub(cx, vec1_x), vec2_x), FSub(FSub(cy, vec1_y), vec2_y)>>,
       <<FAdd(FSub(cx, vec1_x), vec2_x), FAdd(FSub(cy, vec1_y), vec2_y)>> >>

\* xywhr2xyxyxyxy, for one row
Xywhr2xyxyxyxy(box, angle) ==
    CornerPoints(box[1], box[2],
                 FMul(FDiv(box[3], FInt(2)), Cos(angle)),
                 FMul(FDiv(box[3], FInt(2)), Sin(angle)),
                 FMul(FDiv(FSub(FInt(0), box[4]), FInt(2)), Sin(angle)),
                 FMul(FDiv(box[4], FInt(2)), Cos(angle)))

\* np.argsort(scores)[::-1]: ascending, equal scores in index order, reversed
Precedes(scores, i, j) == scores[i] > scores[j] \/ (scores[i] = scores[j] /\ i > j)
ArgsortDesc(scores) ==
    [p \in 1..Len(scores) |->
        CHOOSE i \in 1..Len(scores) :
            Cardinality({j \in 1..Len(scores) : Precedes(scores, j, i)}) = p - 1]

\* the while loop of nms_rotated: the head of `indices` is kept, the rest is
\* carried over whole
RECURSIVE NmsLoop(_, _)
NmsLoop(indices, keep) ==
    IF Len(indices) = 0 THEN keep
    ELSE IF Len(indices) = 1 THEN Append(keep, Head(indices))
    ELSE NmsLoop(Tail(indices), Append(keep, Head(indices)))

\* nms_rotated(boxes, scores, iou_threshold)
NmsRotated(boxes, scores, iou_threshold) ==
    IF Len(boxes) = 0 THEN <<>> ELSE NmsLoop(ArgsortDesc(scores), <<>>)

\* np.min / np.max over the four corners, per axis
CornerMin(pts, axis) ==
    FMin(FMin(pts[1][axis], pts[2][axis]), FMin(pts[3][axis], pts[4][axis]))
CornerMax(pts, axis) ==
    FMax(FMax(pts[1][axis], pts[2][axis]), FMax(pts[3][axis], pts[4][axis]))

\* np.mean(boxes, axis=1), for one box
Center(pts) ==
    <<FDiv(FAdd(FAdd(pts[1][1], pts[2][1]), FAdd(pts[3][1], pts[4][1])), FInt(4)),
      FDiv(FAdd(FAdd(pts[1][2], pts[2][2]), FAdd(pts[3][2], pts[4][2])), FInt(4))>>

\* dist < distance_threshold, on the squares
SquaredNorm(dx, dy) == FAdd(FMul(dx, dx), FMul(dy, dy))
CloserThan(p, q, distance_threshold) ==
    FLt(SquaredNorm(FSub(p[1], q[1]), FSub(p[2], q[2])),
        FInt(distance_threshold * distance_threshold))

\* inter_wh along one axis: np.maximum(0, inter_max - inter_min)
InterWh(a, b, axis) ==
    FMax(FInt(0), FSub(FMin(CornerMax(a, axis), CornerMax(b, axis)),
                       FMax(CornerMin(a, axis), CornerMin(b, axis))))
InterArea(a, b) == FMul(InterWh(a, b, 1), InterWh(a, b, 2))

\* box_i_area
BoxArea(a) ==
    FMul(FSub(CornerMax(a, 1), CornerMin(a, 1)), FSub(CornerMax(a, 2), CornerMin(a, 2)))

\* `if union_area > 0: iou = inter_area / union_area; if iou > iou_threshold`
IouTest(inter_area, union_area, iou_threshold) ==
    /\ FLt(FInt(0), union_area)
    /\ FLt(iou_threshold, FDiv(inter_area, union_area))
UnionTest(inter_area, box_i_area, box_j_area, iou_threshold) ==
    IouTest(inter_area, FSub(FAdd(box_i_area, box_j_area), inter_area), iou_threshold)

\* the bounding-box IoU test of deduplicate_boxes
IouAbove(a, b, iou_threshold) ==
    UnionTest(InterArea(a, b), BoxArea(a), BoxArea(b), iou_threshold)

\* variant: the centre distance is not tested
IsDuplicate_IouOnly(boxes, class_ids, i, j, distance_threshold, iou_threshold) ==
    IouAbove(boxes[i], boxes[j], iou_threshold)

\* box i is dropped because of the kept box j
IsDuplicate(boxes, class_ids, i, j, distance_threshold, iou_threshold) ==
    \/ /\ class_ids[i] = class_ids[j]
       /\ CloserThan(Center(boxes[i]), Center(boxes[j]), distance_threshold)
    \/ IouAbove(boxes[i], boxes[j], iou_threshold)

\* the body of the for loop: keep with i appended unless a kept box rules it out
KeepUnlessDuplicate(boxes, class_ids, i, keep, distance_threshold, iou_threshold) ==
    IF \A k \in 1..Len(keep) :
           ~IsDuplicate(boxes, class_ids, i, keep[k], distance_threshold, iou_threshold)
    THEN Append(keep, i)
    ELSE keep

\* the for loop of deduplicate_boxes over sorted_indices
RECURSIVE DedupLoop(_, _, _, _, _, _)
DedupLoop(boxes, class_ids, sorted_indices, keep, distance_threshold, iou_threshold) ==
    IF Len(sorted_indices) = 0 THEN keep
    ELSE DedupLoop(boxes, class_ids, Tail(sorted_indices),
                   KeepUnlessDuplicate(boxes, class_ids, Head(sorted_indices), keep,
                                       distance_threshold, iou_threshold),
                   distance_threshold, iou_threshold)

\* deduplicate_boxes: the indices kept
DeduplicateBoxes(boxes, scores, class_ids, distance_threshold, iou_threshold) ==
    IF Len(boxes) = 0 THEN <<>>
    ELSE DedupLoop(boxes, class_ids, ArgsortDesc(scores), <<>>,
                   distance_threshold, iou_threshold)

\* predictions.shape after the squeeze of the batch axis
Squeezed(shape) ==
    IF Len(shape) = 3 /\ shape[1] = 1 THEN <<shape[2], shape[3]>> ELSE shape

\* predictions.shape after the transposition
Transposed(shape) ==
    IF Len(shape) = 2 /\ shape[1] < shape[2] /\ shape[1] < 100
    THEN <<shape[2], shape[1]>>
    ELSE shape

PredictionsShape(shape) == Transposed(Squeezed(shape))

\* np.max(cls) and np.argmax(cls) of one prediction (class ids count from 0)
MaxScore(cls) ==
    CHOOSE s \in {cls[k] : k \in 1..Len(cls)} : \A k \in 1..Len(cls) : cls[k] <= s
ArgMax(cls) == (CHOOSE k \in 1..Len(cls) :
                   cls[k] = MaxScore(cls) /\ \A m \in 1..(k - 1) : cls[m] < cls[k]) - 1

\* distance_threshold=10.0 and iou_threshold=0.3 of the call of deduplicate_boxes
DedupDistance == 10
DedupIou == <<3, 10>>

\* `return np.array([]), np.array([]), np.array([])`
EmptyPost ==
    [raised |-> "", x |-> <<>>, nms |-> <<>>, boxes_corners |-> <<>>,
     scores |-> <<>>, class_ids |-> <<>>, rows |-> <<>>]

\* seq[idx]: numpy indexing with a list of indices
Take(seq, idx) == [k \in 1..Len(idx) |-> seq[idx[k]]]

\* columns of x
BoxesOf(x) == [k \in 1..Len(x) |-> x[k].box]
ScoresOf(x) == [k \in 1..Len(x) |-> x[k].conf]
ClassIdsOf(x) == [k \in 1..Len(x) |-> x[k].class_id]
RowsOf(x) == [k \in 1..Len(x) |-> x[k].row]

\* one prediction as a row of x = [box, conf, class_id, angle], its box
\* through scale_boxes; `row` is its place in the model output
XRow(r, i, img_shape, gain, pad) ==
    [row |-> i, box |-> ScaleBoxes(r.box, img_shape, gain, pad, TRUE),
     conf |-> MaxScore(r.cls), class_id |-> ArgMax(r.cls), angle |-> r.angle]

\* x[conf.flatten() > conf_threshold]: the places of the rows that pass
Passing(rows, conf_threshold) ==
    SelectSeq([i \in 1..Len(rows) |-> i],
              LAMBDA i : MaxScore(rows[i].cls) > conf_threshold)

\* lines 292-321: x after the confidence filter and scale_boxes
FilterAndScale(rows, passing, img_shape, gain, pad) ==
    [k \in 1..Len(passing) |-> XRow(rows[passing[k]], passing[k], img_shape, gain, pad)]

\* lines 324-327: x = x[keep_indices]
AfterNms(x, iou_threshold) ==
    Take(x, NmsRotated(BoxesOf(x), ScoresOf(x), iou_threshold))

\* line 336
CornersOf(nms) == [k \in 1..Len(nms) |-> Xywhr2xyxyxyxy(nms[k].box, nms[k].angle)]

\* lines 339-343 and the return: boxes[keep], scores[keep], class_ids[keep]
Deduplicated(x, nms, corners, keep) ==
    [raised |-> "", x |-> x, nms |-> nms,
     boxes_corners |-> Take(corners, keep),
     scores |-> Take(ScoresOf(nms), keep),
     class_ids |-> Take(ClassIdsOf(nms), keep),
     rows |-> Take(RowsOf(nms), keep)]

\* lines 335-348
DecodeCorners(x, nms, corners) ==
    Deduplicated(x, nms, corners,
                 DeduplicateBoxes(corners, ScoresOf(nms), ClassIdsOf(nms),
                                  DedupDistance, DedupIou))

\* lines 308-348
DecodeRows(x, iou_threshold) ==
    IF Len(x) = 0 THEN EmptyPost
    ELSE DecodeCorners(x, AfterNms(x, iou_threshold),
                       CornersOf(AfterNms(x, iou_threshold)))

\* lines 289-348, for predictions of the given shape
DecodeShaped(shape, rows, img_shape, gain, pad, conf_threshold, iou_threshold) ==
    IF shape[1] = 0 THEN EmptyPost
    ELSE IF shape[2] <= 4
    THEN [EmptyPost EXCEPT !.raised = "ValueError"]  \* np.max of no columns
    ELSE DecodeRows(FilterAndScale(rows, Passing(rows, conf_threshold),
                                   img_shape, gain, pad),
                    iou_threshold)

\* postprocess(outputs, img_shape, gain, pad, conf_threshold, iou_threshold).
\* Besides the three arrays returned, the result keeps the rows after
\* scale_boxes (x), the rows after nms_rotated (nms), and for every box
\* returned the prediction it comes from (rows).
Postprocess(outs, img_shape, gain, pad, conf_threshold, iou_threshold) ==
    DecodeShaped(PredictionsShape(outs.shape), outs.rows, img_shape, gain, pad,
                 conf_threshold, iou_threshold)

\* the IoU threshold _infer passes to postprocess
InferIouThreshold == <<3, 5>>

\* the end of _infer: the boxes as Quadrilaterals with integer corners
InferResult(p) ==
    IF p.raised # "" THEN [raised |-> p.raised, value |-> NoValue]
    ELSE [raised |-> "",
          value |-> [textlines |->
                        [k \in 1..Len(p.boxes_corners) |->
                            [pts |-> [c \in 1..4 |-> <<Trunc(p.boxes_corners[k][c][1]),
                                                       Trunc(p.boxes_corners[k][c][2])>>],
                             label |-> classes[p.class_ids[k] + 1],
                             prob |-> p.scores[k]]],
                     raw_mask |-> NoValue, debug_img |-> NoValue]]

(* Inputs of the explored calls *)

\* session.run reports at most MaxPreds boxes with a class score above zero
MaxPreds == 2

\* image.shape[:2]: <<height, width>>
InferShapes ==
    {<<640, 640>>, <<1280, 1280>>, <<1280, 960>>, <<480, 640>>,
     <<1000, 800>>, <<320, 240>>, <<633, 640>>, <<427, 640>>}

\* text_threshold, in hundredths like the class scores
TextThresholds == {40, 85}

Object(cx, cy, w, h, cls, angle) == [box |-> <<cx, cy, w, h>>, cls |-> cls, angle |-> angle]

\* what the model reports, in coordinates of the original image: two large
\* boxes on top of each other, small boxes 6 pixels apart, a box across the
\* left edge, a centre left of the image, a turned box, a weak box
ObjectSet ==
    {Object(100, 100, 80, 40, <<90, 5, 0, 0, 0>>, 0),
     Object(104, 100, 80, 40, <<0, 88, 0, 0, 0>>, 0),
     Object(20, 20, 4, 4, <<70, 0, 0, 0, 0>>, 0),
     Object(26, 20, 4, 4, <<60, 0, 0, 0, 0>>, 0),
     Object(26, 20, 4, 4, <<0, 50, 0, 0, 0>>, 0),
     Object(10, 100, 80, 40, <<0, 0, 86, 0, 0>>, 0),
     Object(-10, 50, 6, 6, <<0, 0, 0, 45, 0>>, 0),
     Object(200, 200, 80, 40, <<0, 0, 0, 0, 95>>, 1),
     Object(150, 30, 50, 20, <<30, 10, 0, 0, 0>>, 0)}

\* the letterboxed image shows a box of the original image scaled by gain and
\* shifted by the padding
ToModelSpace(obj, gain, pad) ==
    [box |-> <<FAdd(FMul(FInt(obj.box[1]), gain), FInt(pad[1])),
               FAdd(FMul(FInt(obj.box[2]), gain), FInt(pad[2])),
               FMul(FInt(obj.box[3]), gain),
               FMul(FInt(obj.box[4]), gain)>>,
     cls |-> obj.cls, angle |-> obj.angle]

\* outputs[0].shape: 4 + nc + 1 channels by 8400 anchors, of which all but
\* the reported boxes have class scores of zero; or a tensor without anchors
OutputShapes ==
    {<<1, 4 + Len(classes) + 1, 8400>>, <<1, 4 + Len(classes) + 1, 0>>,
     <<1, 0, 4 + Len(classes) + 1>>, <<0>>}
HasAnchors(shape) == \A k \in 1..Len(shape) : shape[k] > 0

InitInfer ==
    /\ infer_call \in {[img_shape |-> s, text_threshold |-> t] :
                          s \in InferShapes, t \in TextThresholds}
    /\ ipc = "call"
    /\ lb = <<>>
    /\ objects = <<>>
    /\ outputs = <<>>
    /\ post = <<>>
    /\ infer_ret = <<>>
    /\ MergeIdle
    /\ DetectIdle
    /\ CacheIdle
    /\ GeometryIdle

\* _infer up to session.run: preprocess
EnterInfer ==
    /\ ipc = "call"
    /\ lb' = Preprocess(infer_call.img_shape)
    /\ ipc' = "run"
    /\ UNCHANGED <<infer_call, objects, outputs, post, infer_ret>>
    /\ UNCHANGED <<mergeVars, detectVars, cacheVars, geometryVars>>

\* session.run returns; postprocess; the Quadrilaterals are built and returned
Infer ==
    /\ ipc = "run"
    /\ \E shape \in OutputShapes : \E n \in 0..MaxPreds : \E objs \in [1..n -> ObjectSet] :
          /\ HasAnchors(shape) \/ n = 0
          /\ objects' = objs
          /\ outputs' = [shape |-> shape,
                         rows |-> [i \in 1..n |-> ToModelSpace(objs[i], lb.gain, lb.pad)]]
    /\ post' = Postprocess(outputs', infer_call.img_shape, lb.gain, lb.pad,
                           infer_call.text_threshold, InferIouThreshold)
    /\ infer_ret' = InferResult(post')
    /\ ipc' = "done"
    /\ UNCHANGED <<infer_call, lb>>
    /\ UNCHANGED <<mergeVars, detectVars, cacheVars, geometryVars>>

NextInfer == EnterInfer \/ Infer

SpecInfer == InitInfer /\ [][NextInfer]_vars

----------------------------------------------------------------------------
(* StableGeometryEngine and RegionGeometryManager
   (desktop-ui/core/stable_geometry_engine.py).  Coordinates are exact
   fractions <<n, d>>; a point is <<x, y>>, a polygon a sequence of points. *)

\* epsilon = 1e-9, as 1 / EpsilonInverse
EpsilonInverse == 1000000000

\* abs(a - b) < epsilon: n / d < 1 / EpsilonInverse iff n <= (d - 1) div EpsilonInverse
WithinEpsilon(a, b) ==
    Abs(FSub(a, b)[1]) <= (FSub(a, b)[2] - 1) \div EpsilonInverse

VisualAnchor(x, y) == [x |-> x, y |-> y]

\* VisualAnchor.__eq__
AnchorEq(a, b) == WithinEpsilon(a.x, b.x) /\ WithinEpsilon(a.y, b.y)

GeometryState(raw_polygons, rotation_degrees, visual_anchor) ==
    [raw_polygons |-> raw_polygons, rotation_degrees |-> rotation_degrees,
     visual_anchor |-> visual_anchor]

\* [p for poly in polygons for p in poly], as a set
AllPoints(polygons) ==
    UNION {{polygons[i][j] : j \in 1..Len(polygons[i])} : i \in 1..Len(polygons)}

\* min(xs), max(xs)
MinAlong(points, axis) ==
    CHOOSE v \in {p[axis] : p \in points} : \A p \in points : FLe(v, p[axis])
MaxAlong(points, axis) ==
    CHOOSE v \in {p[axis] : p \in points} : \A p \in points : FLe(p[axis], v)

\* ((min(xs) + max(xs)) / 2.0, (min(ys) + max(ys)) / 2.0)
BoundingBoxCenter(points) ==
    <<FDiv(FAdd(MinAlong(points, 1), MaxAlong(points, 1)), FInt(2)),
      FDiv(FAdd(MinAlong(points, 2), MaxAlong(points, 2)), FInt(2))>>

\* GeometryState.get_backend_center
GetBackendCenter(gs) ==
    IF AllPoints(gs.raw_polygons) = {} THEN <<FInt(0), FInt(0)>>
    ELSE BoundingBoxCenter(AllPoints(gs.raw_polygons))

\* math.cos / math.sin of math.radians(angle_degrees), for whole quarter turns
CosDegrees(angle_degrees) ==
    CASE angle_degrees % 360 = 0 -> FInt(1)
      [] angle_degrees % 360 = 90 -> FInt(0)
      [] angle_degrees % 360 = 180 -> FInt(-1)
      [] angle_degrees % 360 = 270 -> FInt(0)
SinDegrees(angle_degrees) ==
    CASE angle_degrees % 360 = 0 -> FInt(0)
      [] angle_degrees % 360 = 90 -> FInt(1)
      [] angle_degrees % 360 = 180 -> FInt(0)
      [] angle_degrees % 360 = 270 -> FInt(-1)

\* rotated_x = dx * cos_a - dy * sin_a; rotated_y = dx * sin_a + dy * cos_a
RotateAbout(dx, dy, cos_a, sin_a, center_x, center_y) ==
    <<FAdd(FSub(FMul(dx, cos_a), FMul(dy, sin_a)), center_x),
      FAdd(FAdd(FMul(dx, sin_a), FMul(dy, cos_a)), center_y)>>

\* StableGeometryEngine.rotate_point
RotatePoint(x, y, angle_degrees, center_x, center_y) ==
    IF angle_degrees = 0 THEN <<x, y>>
    ELSE RotateAbout(FSub(x, center_x), FSub(y, center_y),
                     CosDegrees(angle_degrees), SinDegrees(angle_degrees),
                     center_x, center_y)

\* every point of every polygon moved by (offset_x, offset_y)
Shifted(polygons, offset_x, offset_y) ==
    [i \in 1..Len(polygons) |->
        [j \in 1..Len(polygons[i]) |->
            <<FAdd(polygons[i][j][1], offset_x), FAdd(polygons[i][j][2], offset_y)>>]]

\* StableGeometryEngine.calculate_compensated_geometry
CalculateCompensatedGeometry(gs) ==
    Shifted(gs.raw_polygons,
            FSub(gs.visual_anchor.x, GetBackendCenter(gs)[1]),
            FSub(gs.visual_anchor.y, GetBackendCenter(gs)[2]))

\* lines 144-149: the center the backend will compute
CalculatedCenter(compensated_polygons) ==
    IF AllPoints(compensated_polygons) = {} THEN <<FInt(0), FInt(0)>>
    ELSE BoundingBoxCenter(AllPoints(compensated_polygons))

\* StableGeometryEngine.get_backend_data_for_rendering
GetBackendDataForRendering(gs) ==
    [lines |-> CalculateCompensatedGeometry(gs),
     angle |-> gs.rotation_degrees,
     center |-> CalculatedCenter(CalculateCompensatedGeometry(gs))]

\* lines 165-177: the new polygon in raw (unrotated) coordinates
NewPolygonRaw(gs, new_polygon_world) ==
    IF gs.rotation_degrees # 0
    THEN [j \in 1..Len(new_polygon_world) |->
            RotatePoint(new_polygon_world[j][1], new_polygon_world[j][2],
                        -gs.rotation_degrees, gs.visual_anchor.x, gs.visual_anchor.y)]
    ELSE new_polygon_world

\* StableGeometryEngine.add_polygon_to_geometry
AddPolygonToGeometry(gs, new_polygon_world) ==
    GeometryState(Append(gs.raw_polygons, NewPolygonRaw(gs, new_polygon_world)),
                  gs.rotation_degrees, gs.visual_anchor)

\* StableGeometryEngine.update_rotation
UpdateRotation(gs, new_rotation_degrees) ==
    GeometryState(gs.raw_polygons, new_rotation_degrees, gs.visual_anchor)

\* StableGeometryEngine.verify_consistency
VerifyConsistency(gs) ==
    /\ WithinEpsilon(GetBackendDataForRendering(gs).center[1], gs.visual_anchor.x)
    /\ WithinEpsilon(GetBackendDataForRendering(gs).center[2], gs.visual_anchor.y)

\* lines 243-252: `if not center:` computes one from the lines
RegionCenter(lines, center) ==
    IF center # None THEN center
    ELSE IF AllPoints(lines) = {} THEN <<FInt(0), FInt(0)>>
    ELSE BoundingBoxCenter(AllPoints(lines))

\* RegionGeometryManager.from_region_data
FromRegionData(rd) ==
    GeometryState(rd.lines, rd.angle,
                  VisualAnchor(RegionCenter(rd.lines, rd.center)[1],
                               RegionCenter(rd.lines, rd.center)[2]))

(* Inputs of the explored edits *)

\* number of edits applied to one region
MaxEdits == 3

\* a polygon with integer corners
Polygon(pts) == [j \in 1..Len(pts) |-> <<FInt(pts[j][1]), FInt(pts[j][2])>>]

\* 'lines' of a region: none, one polygon without points, a text box, a text
\* box with a second line
RegionLines ==
    {<<>>,
     <<Polygon(<<>>)>>,
     <<Polygon(Rect(0, 0, 4, 2))>>,
     <<Polygon(Rect(0, 0, 4, 2)), Polygon(Rect(5, 1, 8, 4))>>}
\* 'center': absent, the center of the text box, a place elsewhere
RegionCenters == {None, <<FInt(2), FInt(1)>>, <<FInt(5), FInt(5)>>}
RotationDegrees == {0, 90, 180, -90}
\* polygons drawn by the user, in world coordinates
WorldPolygons == {Polygon(Rect(6, 6, 9, 7)), Polygon(<<<<1, 1>>, <<3, 2>>, <<2, 5>>>>)}

InitGeometry ==
    /\ region_data \in {[lines |-> l, angle |-> a, center |-> c] :
                           l \in RegionLines, a \in {0, 90}, c \in RegionCenters}
    /\ geometry_state = FromRegionData(region_data)
    /\ original_anchor = geometry_state.visual_anchor
    /\ edits = 0
    /\ MergeIdle
    /\ DetectIdle
    /\ CacheIdle
    /\ InferIdle

\* current_state = StableGeometryEngine.update_rotation(current_state, angle)
EditRotation ==
    /\ edits < MaxEdits
    /\ \E angle \in RotationDegrees :
          geometry_state' = UpdateRotation(geometry_state, angle)
    /\ edits' = edits + 1
    /\ UNCHANGED <<region_data, original_anchor>>
    /\ UNCHANGED <<mergeVars, detectVars, cacheVars, inferVars>>

\* current_state = StableGeometryEngine.add_polygon_to_geometry(current_state, polygon)
EditAddPolygon ==
    /\ edits < MaxEdits
    /\ \E polygon \in WorldPolygons :
          geometry_state' = AddPolygonToGeometry(geometry_state, polygon)
    /\ edits' = edits + 1
    /\ UNCHANGED <<region_data, original_anchor>>
    /\ UNCHANGED <<mergeVars, detectVars, cacheVars, inferVars>>

NextGeometry == EditRotation \/ EditAddPolygon

SpecGeometry == InitGeometry /\ [][NextGeometry]_vars

----------------------------------------------------------------------------
(* Properties of merge_detection_boxes, stated on the inputs and the result.
   Two boxes overlap when their closed axis-aligned bounding boxes share a
   point (touching edges and degenerate boxes included). *)

Range(s) == {s[i] : i \in 1..Len(s)}
YoloIdx == 1..Len(yolo_boxes)
MainIdx == 1..Len(main_boxes)

BoxW(b) == MaxX(b) - MinX(b)
BoxH(b) == MaxY(b) - MinY(b)
AabbMeet(a, b) ==
    /\ MinX(a) <= MaxX(b) /\ MinX(b) <= MaxX(a)
    /\ MinY(a) <= MaxY(b) /\ MinY(b) <= MaxY(a)
AabbEncloses(a, p) ==
    /\ MinX(a) <= MinX(p) /\ MaxX(p) <= MaxX(a)
    /\ MinY(a) <= MinY(p) /\ MaxY(p) <= MaxY(a)
\* the replacement condition of auxiliary box a against primary box p
Replaces(a, p) ==
    /\ BoxW(p) * BoxH(p) > 0
    /\ AabbEncloses(a, p)
    /\ BoxW(a) * BoxH(a) >= 2 * (BoxW(p) * BoxH(p))

\* C1: an auxiliary box that encloses a primary box of positive area and has
\* at least twice its area stays in the result, and that primary box does not.
C1_Replacement ==
    mpc = "merged" =>
        \A yi \in YoloIdx : \A mi \in MainIdx :
            Replaces(yolo_boxes[yi], main_boxes[mi]) =>
                /\ MainRef(mi) \notin Range(merged)
                /\ YoloRef(yi) \in Range(merged)

C1_Witness ==
    /\ mpc = "merged"
    /\ \E yi \in YoloIdx : \E mi \in MainIdx :
          /\ Replaces(yolo_boxes[yi], main_boxes[mi])
          /\ BoxW(yolo_boxes[yi]) * BoxH(yolo_boxes[yi])
                = 2 * AabbArea(main_boxes[mi])
          /\ MainRef(mi) \notin Range(merged)

\* C2: an auxiliary box that overlaps some primary box and replaces none is
\* not in the result; each primary box it overlaps is in the result unless
\* another auxiliary box replaces it.
C2_Redundancy ==
    mpc = "merged" =>
        \A yi \in YoloIdx :
            ( /\ \E mi \in MainIdx : AabbMeet(yolo_boxes[yi], main_boxes[mi])
              /\ \A mi \in MainIdx : ~Replaces(yolo_boxes[yi], main_boxes[mi]) )
            =>
            /\ YoloRef(yi) \notin Range(merged)
            /\ \A mi \in MainIdx :
                  AabbMeet(yolo_boxes[yi], main_boxes[mi]) =>
                      \/ MainRef(mi) \in Range(merged)
                      \/ \E yj \in YoloIdx \ {yi} :
                            Replaces(yolo_boxes[yj], main_boxes[mi])

\* a redundant auxiliary box next to a kept primary box, and another one
\* whose primary box was taken by a second auxiliary box
C2_Witness ==
    /\ mpc = "merged"
    /\ \E yi \in YoloIdx : \E mi \in MainIdx :
          /\ AabbMeet(yolo_boxes[yi], main_boxes[mi])
          /\ ~AabbEncloses(yolo_boxes[yi], main_boxes[mi])
          /\ \A mj \in MainIdx : ~Replaces(yolo_boxes[yi], main_boxes[mj])
          /\ YoloRef(yi) \notin Range(merged)
          /\ MainRef(mi) \notin Range(merged)
          /\ \E yj \in YoloIdx \ {yi} : YoloRef(yj) \in Range(merged)

\* C3: a primary box no auxiliary box overlaps is in the result, and an
\* auxiliary box that overlaps no primary box is in the result, with the
\* geometry it came in with (the result refers to the input objects, which
\* the merge leaves alone); empty input lists included.
C3_MergeInvariant ==
    mpc = "merged" =>
        /\ \A mi \in MainIdx :
              (\A yi \in YoloIdx : ~AabbMeet(yolo_boxes[yi], main_boxes[mi]))
                  => MainRef(mi) \in Range(merged)
        /\ \A yi \in YoloIdx :
              (\A mi \in MainIdx : ~AabbMeet(yolo_boxes[yi], main_boxes[mi]))
                  => YoloRef(yi) \in Range(merged)

C3_Witness ==
    /\ mpc = "merged"
    /\ \E yi \in YoloIdx : \E yj \in YoloIdx : \E mi \in MainIdx :
          /\ \A mj \in MainIdx : ~AabbMeet(yolo_boxes[yi], main_boxes[mj])
          /\ MinX(yolo_boxes[yi]) > MaxX(main_boxes[mi])
          /\ YoloRef(yi) \in Range(merged)
          /\ YoloRef(yj) \notin Range(merged)

\* C4: an auxiliary box that replaces some primary box is in the result even
\* if it overlaps another primary box P2 it does not replace, and then P2 is
\* in the result too unless a different auxiliary box replaces it.
C4_TieBreak ==
    mpc = "merged" =>
        \A yi \in YoloIdx :
            (\E mi \in MainIdx : Replaces(yolo_boxes[yi], main_boxes[mi])) =>
                /\ YoloRef(yi) \in Range(merged)
                /\ \A m2 \in MainIdx :
                      ( /\ AabbMeet(yolo_boxes[yi], main_boxes[m2])
                        /\ ~Replaces(yolo_boxes[yi], main_boxes[m2]) )
                      =>
                      \/ MainRef(m2) \in Range(merged)
                      \/ \E yj \in YoloIdx \ {yi} :
                            Replaces(yolo_boxes[yj], main_boxes[m2])

\* the result holds an auxiliary box together with a primary box it overlaps
C4_Witness ==
    /\ mpc = "merged"
    /\ \E yi \in YoloIdx : \E m1 \in MainIdx : \E m2 \in MainIdx :
          /\ Replaces(yolo_boxes[yi], main_boxes[m1])
          /\ AabbMeet(yolo_boxes[yi], main_boxes[m2])
          /\ ~AabbEncloses(yolo_boxes[yi], main_boxes[m2])
          /\ AabbArea(main_boxes[m2]) > 0
          /\ YoloRef(yi) \in Range(merged)
          /\ MainRef(m2) \in Range(merged)

----------------------------------------------------------------------------
(* Properties of CommonDetector.detect *)

ImgW == request.image.w
ImgH == request.image.h
Corners(q) == {q.pts[i] : i \in 1..4}
ReturnedBoxes == Range(ret.textlines)

\* the boxes the first pass is left with (after the area filter and the
\* border removal), while the first pass's locals are still there
FirstPassBoxes == PassResult(request, image, detected).textlines
FirstPassOver == passes = 1 /\ dpc \in {"call", "done"}
RetryCalled == passes = 1 /\ dpc = "call"
NumHorizontal(tl) == Cardinality({i \in 1..Len(tl) :
    BoxW(tl[i].pts) # BoxH(tl[i].pts) /\ Max2(BoxW(tl[i].pts), BoxH(tl[i].pts)) > 0})
NumVertical(tl) == Len(tl) - NumHorizontal(tl)

\* C5: every returned box has bounding-box area above 16 and above the
\* caller's min_box_area_ratio share of the original image, measured on the
\* box as returned.
C5_AreaFilterOnReturned ==
    dpc = "done" =>
        \A q \in ReturnedBoxes :
            /\ BoxW(q.pts) * BoxH(q.pts) > 16
            /\ BoxW(q.pts) * BoxH(q.pts) * request.min_box_area_ratio[2]
                  > request.min_box_area_ratio[1] * (ImgW * ImgH)

\* C6: one top-level call runs _detect at most twice; the invocation that
\* runs the second time has auto_rotate off.
C6_AtMostOneRetry ==
    /\ passes <= 2
    /\ (passes = 2 \/ RetryCalled) => ~frame.auto_rotate

C6_Witness == dpc = "done" /\ passes = 2 /\ Len(ret.textlines) > 0

\* C7 as stated: with auto_rotate on and no box left by the first pass, no
\* retry is made.
C7_NoRetryWithoutBoxes ==
    (request.auto_rotate /\ FirstPassOver /\ Len(FirstPassBoxes) = 0) => ~RetryCalled

\* C7 amended: with auto_rotate on and no box left by the first pass, detect
\* makes the retry (original image, rotate toggled, auto_rotate off) and
\* returns the retry's result; the first pass's result is returned only when
\* it has a box and the majority is vertical.
C7_RetryWithoutBoxes ==
    /\ (request.auto_rotate /\ FirstPassOver /\ Len(FirstPassBoxes) = 0) =>
          /\ RetryCalled
          /\ frame.image = request.image
          /\ frame.rotate = ~request.rotate
          /\ ~frame.auto_rotate
    /\ (request.auto_rotate /\ dpc = "done" /\ passes = 1) =>
          /\ Len(FirstPassBoxes) > 0
          /\ NumVertical(FirstPassBoxes) >= NumHorizontal(FirstPassBoxes)
    /\ (dpc = "done" /\ passes = 2) => ret.run = 2

\* the detector reported boxes, none survived, and the retry is under way
C7_Witness ==
    /\ request.auto_rotate /\ RetryCalled
    /\ Len(detected.textlines) > 0
    /\ Len(FirstPassBoxes) = 0

\* C8: with auto_rotate on and more horizontal than vertical boxes left by
\* the first pass, detect calls itself once, on the original unmodified image
\* with rotate toggled and auto_rotate off, and returns what that pass yields.
C8_RetryOnHorizontalMajority ==
    /\ ( /\ request.auto_rotate /\ FirstPassOver
         /\ NumHorizontal(FirstPassBoxes) > NumVertical(FirstPassBoxes) ) =>
          RetryCalled
    /\ RetryCalled =>
          /\ frame.image = [w |-> ImgW, h |-> ImgH, filters |-> <<>>]
          /\ frame.rotate = ~request.rotate
          /\ ~frame.auto_rotate
          /\ frame.invert = request.invert
          /\ frame.gamma_correct = request.gamma_correct
    /\ (dpc = "done" /\ frame # request) =>
          /\ passes = 2
          /\ ret.run = 2
          /\ ret = FinalResult(frame, PassResult(frame, image, detected))

C8_Witness ==
    /\ request.auto_rotate /\ RetryCalled
    /\ NumHorizontal(FirstPassBoxes) > NumVertical(FirstPassBoxes)
    /\ Len(FirstPassBoxes) = 2
    /\ image.filters # <<>>

\* C9: every corner of every returned box lies in [0, width] x [0, height]
\* of the original image (the detector's boxes lie in the image it was given).
C9_RoundTripBounds ==
    dpc = "done" =>
        \A q \in ReturnedBoxes : \A c \in Corners(q) :
            /\ 0 <= c[1] /\ c[1] <= ImgW
            /\ 0 <= c[2] /\ c[2] <= ImgH

\* C10: for a 300x200 image, a box reported with all corners at x in
\* [350, 400] of the padded image has no box among the returned ones.
C10_PaddingBoxDropped ==
    ( /\ dpc = "done" /\ ImgW = 300 /\ ImgH = 200 /\ ~frame.rotate
      /\ image.w = 400 /\ image.h = 400 ) =>
        \A d \in Range(detected.textlines) :
            (\A c \in Corners(d) : 350 <= c[1] /\ c[1] <= 400) =>
                \A q \in ReturnedBoxes : q.id # d.id

----------------------------------------------------------------------------
(* Properties of the detector cache, stated on the calls made so far *)

GetCalls == {i \in 1..Len(history) : history[i].op = "get_detector"}

\* the cache and the number of objects built, just before call i
CacheBefore(i) == IF i = 1 THEN <<>> ELSE history[i - 1].cache
BuiltBefore(i) == IF i = 1 THEN 0 ELSE history[i - 1].built

\* call i ran a constructor
ConstructedAt(i) == history[i].built = BuiltBefore(i) + 1

UnloadBetween(i, j) ==
    \E u \in (i + 1)..(j - 1) :
        history[u].op = "unload" /\ history[u].key = history[j].key

\* an earlier get_detector of the same key, with no unload of it since
EarlierGets(j) ==
    {i \in GetCalls : i < j /\ history[i].key = history[j].key /\ ~UnloadBetween(i, j)}

\* C20: get_detector of a registered key constructs exactly when no earlier
\* get_detector of that key is still in force (none yet, or unload since);
\* otherwise it returns the instance of the earlier calls, whose constructor
\* arguments are those of the call that built it; a key that is not
\* registered raises ValueError and leaves the cache as it was.
C20_Memoization ==
    \A j \in GetCalls :
        LET e == history[j] IN
          IF e.key \notin DETECTORS
          THEN e.raised = "ValueError" /\ e.cache = CacheBefore(j) /\ ~ConstructedAt(j)
          ELSE /\ e.raised = ""
               /\ ConstructedAt(j) <=> (EarlierGets(j) = {})
               /\ ConstructedAt(j) =>
                     /\ e.value = e.built
                     /\ instances[e.value].args = e.args
                     /\ \A i \in GetCalls : i < j => history[i].value # e.value
               /\ \A i \in EarlierGets(j) : history[i].value = e.value

C20_Witness ==
    /\ Len(history) = 4
    /\ history[1].op = "get_detector" /\ history[1].key = "default"
    /\ history[2].op = "get_detector" /\ history[2].key = "default"
    /\ history[2].args # history[1].args /\ history[2].value = history[1].value
    /\ history[3].op = "unload" /\ history[3].key = "default"
    /\ history[4].op = "get_detector" /\ history[4].key = "default"
    /\ history[4].value # history[1].value

----------------------------------------------------------------------------
(* Properties of dispatch *)

PrimarySteps == {"get_detector", "load", "detect"}
AuxSteps == {"get_detector_instance", "yolo_load", "yolo_detect", "merge"}
Done(c) == task[c].pc = "done"

\* the primary result as a caller receives it: every primary box, in order
PrimaryBoxes(c) == [i \in 1..Len(task[c].main.textlines) |-> MainRef(i)]

\* C11: a call with use_yolo_obb whose auxiliary path raised (obtaining the
\* detector, load, detect or merge) raises nothing and returns the primary
\* detector's boxes, mask and raw image.
C11_AuxFallback ==
    \A c \in Callers :
        (Done(c) /\ task[c].failed \in AuxSteps) =>
            /\ task[c].use_yolo_obb
            /\ ~task[c].result.raised
            /\ task[c].result.value.textlines = PrimaryBoxes(c)
            /\ task[c].result.value.mask = task[c].main.mask
            /\ task[c].result.value.raw_image = task[c].main.raw_image

C11_Witness ==
    /\ Done(1) /\ task[1].failed = "yolo_load" /\ Len(task[1].main.textlines) > 0
    /\ Done(2) /\ task[2].failed = "merge" /\ Len(task[2].main.textlines) > 0

\* C12: a call whose primary path raised (get_detector, load or detect)
\* raises to its caller, returns nothing, and never reached the auxiliary
\* detector.
C12_PrimaryFailureFatal ==
    \A c \in Callers :
        (Done(c) /\ task[c].failed \in PrimarySteps) =>
            /\ task[c].result.raised
            /\ task[c].result.value = NoValue
            /\ task[c].yolo_detector = 0

C12_Witness ==
    /\ Done(1) /\ task[1].use_yolo_obb /\ task[1].failed = "load"
    /\ Done(2) /\ task[2].use_yolo_obb /\ task[2].failed = "detect"

\* C13: callers of the same key share one instance, no key has two
\* instances, and no two callers have the load of one instance in flight.
C13_SingleFlight ==
    /\ \A i, j \in 1..Len(instances) : instances[i].cls = instances[j].cls => i = j
    /\ \A c, d \in Callers :
          /\ (task[c].key = task[d].key /\ task[c].detector # 0 /\ task[d].detector # 0)
                => task[c].detector = task[d].detector
          /\ (task[c].yolo_detector # 0 /\ task[d].yolo_detector # 0)
                => task[c].yolo_detector = task[d].yolo_detector
          /\ (c # d /\ task[c].pc = "load" /\ task[d].pc = "load")
                => task[c].detector # task[d].detector
          /\ (c # d /\ task[c].pc = "yolo_load" /\ task[d].pc = "yolo_load")
                => task[c].yolo_detector # task[d].yolo_detector

----------------------------------------------------------------------------
(* Properties of YOLOOBBDetector._infer, stated on the reported boxes
   (objects), the values postprocess computed and the value returned *)

InferDone == ipc = "done"
InferW == infer_call.img_shape[2]
InferH == infer_call.img_shape[1]

\* the four corners of a row <<cx, cy, w, h>> with its angle
RowCorners(r) == Xywhr2xyxyxyxy(r.box, r.angle)

\* squared distance of the centres of two boxes given by their corners
CenterDist2(a, b) ==
    LET dx == FSub(Center(a)[1], Center(b)[1])
        dy == FSub(Center(a)[2], Center(b)[2])
    IN  FAdd(FMul(dx, dx), FMul(dy, dy))

\* C14: the rows left by nms_rotated are in descending order of confidence
\* and no two of them have an IoU above the threshold (the boxes are turned
\* by whole quarter turns, so their IoU is that of their corner rectangles).
C14_NmsSuppression ==
    InferDone =>
        \A a, b \in 1..Len(post.nms) :
            a < b =>
                /\ post.nms[a].conf >= post.nms[b].conf
                /\ ~IouAbove(RowCorners(post.nms[a]), RowCorners(post.nms[b]),
                             InferIouThreshold)

\* C15: two distinct boxes returned by postprocess with the same class have
\* centres at least 10 pixels apart.
C15_DedupDistance ==
    InferDone =>
        \A a, b \in 1..Len(post.boxes_corners) :
            (a # b /\ post.class_ids[a] = post.class_ids[b]) =>
                FLe(FInt(100), CenterDist2(post.boxes_corners[a], post.boxes_corners[b]))

\* two same-class boxes less than 10 pixels apart that do not intersect
\* entered deduplicate_boxes, and one of them was returned
C15_Witness ==
    /\ InferDone
    /\ Len(post.nms) = 2 /\ Len(post.boxes_corners) = 1
    /\ post.nms[1].class_id = post.nms[2].class_id
    /\ FLt(CenterDist2(RowCorners(post.nms[1]), RowCorners(post.nms[2])), FInt(100))
    /\ ~IouAbove(RowCorners(post.nms[1]), RowCorners(post.nms[2]), DedupIou)

\* C16: a reported box whose centre lies in the image, mapped into the
\* letterboxed image (times gain, plus padding), comes back from scale_boxes
\* as it was.
C16_RoundTrip ==
    InferDone =>
        \A k \in 1..Len(post.x) :
            LET obj == objects[post.x[k].row] IN
              (/\ 0 <= obj.box[1] /\ obj.box[1] <= InferW
               /\ 0 <= obj.box[2] /\ obj.box[2] <= InferH) =>
                  post.x[k].box = <<FInt(obj.box[1]), FInt(obj.box[2]),
                                    FInt(obj.box[3]), FInt(obj.box[4])>>

\* an image that is both scaled and padded, and a box inside it was decoded
C16_Witness ==
    /\ InferDone
    /\ lb.gain # FInt(1) /\ lb.pad[1] > 0
    /\ \E k \in 1..Len(post.x) :
          /\ objects[post.x[k].row].box[1] \in 1..InferW
          /\ objects[post.x[k].row].box[2] \in 1..InferH
          /\ objects[post.x[k].row].box[3] > 0

\* C17: the image letterbox returns is input_size by input_size.
C17_LetterboxSize ==
    ipc \in {"run", "done"} => lb.shape = <<input_size, input_size>>

\* C18: every corner of every box returned by postprocess lies in the image.
C18_CornersInImage ==
    InferDone =>
        \A k \in 1..Len(post.boxes_corners) : \A c \in 1..4 :
            /\ FLe(FInt(0), post.boxes_corners[k][c][1])
            /\ FLe(post.boxes_corners[k][c][1], FInt(InferW))
            /\ FLe(FInt(0), post.boxes_corners[k][c][2])
            /\ FLe(post.boxes_corners[k][c][2], FInt(InferH))

\* C19: when the output holds no prediction, or none whose best class score
\* exceeds the threshold, _infer raises nothing and returns no box.
C19_EmptyOutput ==
    (InferDone /\ \A i \in 1..Len(outputs.rows) :
                     MaxScore(outputs.rows[i].cls) <= infer_call.text_threshold) =>
        /\ infer_ret.raised = ""
        /\ infer_ret.value.textlines = <<>>

\* the filters of section 4.1 in the order the claim gives
FilterOrder == <<"rotate", "border", "invert", "gamma">>
FilterEnabled(s) ==
    CASE s = "rotate" -> frame.rotate
      [] s = "border" -> NeedsBorder(frame)
      [] s = "invert" -> frame.invert
      [] s = "gamma" -> frame.gamma_correct
HasStep(step) == \E i \in 1..Len(log) : log[i] = step

\* C22: in every pass the enabled filters are applied in the order rotate,
\* border, invert, gamma, all before _detect runs; after _detect the border
\* is removed first and the rotation last.
C22_FilterOrdering ==
    /\ dpc \in {"await", "post", "done"} =>
          image.filters = SelectSeq(FilterOrder, FilterEnabled)
    /\ \A i, j \in 1..Len(log) :
          /\ (log[i] \in Range(FilterOrder) /\ log[j] = "_detect") => i < j
          /\ (log[i] = "_detect" /\ log[j] \in {"remove_border", "remove_rotation"}) => i < j
          /\ (log[i] = "remove_border" /\ log[j] = "remove_rotation") => i < j
    /\ dpc = "done" =>
          /\ HasStep("_detect")
          /\ HasStep("remove_border") <=> NeedsBorder(frame)
          /\ HasStep("remove_rotation") <=> frame.rotate

\* all four filters were applied and both reversals ran
C22_Witness ==
    /\ dpc = "done"
    /\ image.filters = FilterOrder
    /\ log = FilterOrder \o <<"_detect", "area_filter", "remove_border", "remove_rotation">>

\* a pass as C23 orders it: the border removal and the rotation removal
\* first, the area filter on the boxes they leave
ReversalThenAreaFilter(f, img, det) ==
    AreaFilter(f, FinalResult(f, IF NeedsBorder(f)
                                 THEN RemoveBorder(img, f.image.w, f.image.h, det)
                                 ELSE det))

\* C23: in each pass the area filter runs exactly once, and it runs on the
\* boxes left by the filter reversal (border removal with clamping, rotation
\* removal), not on the boxes as _detect reported them.
C23_AreaFilterAfterReversal ==
    dpc = "done" =>
        /\ Cardinality({i \in 1..Len(log) : log[i] = "area_filter"}) = 1
        /\ ret.textlines = ReversalThenAreaFilter(frame, image, detected).textlines

\* the boxes of the running pass that the area filter lets through
FilteredBoxes == AreaFilter(frame, detected).textlines

\* C24: with rotate on and no border, each returned box is a new box whose
\* corners are (y', original_height - x') for the corners (x', y') the detector
\* reported in the rotated image; rotating a returned corner by -90 degrees
\* gives the reported corner again, and the returned corners lie in the
\* original image.
C24_RotationReversal ==
    (dpc = "done" /\ frame.rotate /\ ~NeedsBorder(frame)) =>
        /\ Len(ret.textlines) = Len(FilteredBoxes)
        /\ \A k \in 1..Len(FilteredBoxes) :
              /\ ret.textlines[k].id = FilteredBoxes[k].id
              /\ heap[FilteredBoxes[k].id] = FilteredBoxes[k].pts
              /\ \A i \in 1..4 :
                    /\ ret.textlines[k].pts[i] =
                          <<FilteredBoxes[k].pts[i][2],
                            frame.image.h - FilteredBoxes[k].pts[i][1]>>
                    /\ RotatedPoint(ret.textlines[k].pts[i], frame.image.h) =
                          FilteredBoxes[k].pts[i]
                    /\ ret.textlines[k].pts[i][1] \in 0..frame.image.w
                    /\ ret.textlines[k].pts[i][2] \in 0..frame.image.h

\* a box away from the origin, wider than high in the rotated image, came back
C24_Witness ==
    /\ dpc = "done" /\ frame.rotate /\ ~NeedsBorder(frame)
    /\ \E k \in 1..Len(ret.textlines) :
          /\ FilteredBoxes[k].pts[1] = <<350, 0>>
          /\ ret.textlines[k].pts[1] = <<0, 50>>

\* C27: the box objects handed to _remove_border and _remove_rotation keep
\* their corner coordinates: whatever the pass does after _detect, the
\* detector's boxes are as _detect returned them.
C27_BoxesNotMutated ==
    \A i \in 1..Len(heap) : heap[i] = detected.textlines[i].pts

\* C28: the retry pass runs with the caller's min_box_area_ratio, and the
\* boxes returned after a retry are those its area filter leaves with the
\* caller's ratio.
C28_RetryKeepsRatio ==
    /\ frame.min_box_area_ratio = request.min_box_area_ratio
    /\ (dpc = "done" /\ passes = 2) =>
          ret = FinalResult(frame,
                    PassResult([frame EXCEPT !.min_box_area_ratio = request.min_box_area_ratio],
                               image, detected))

\* C29: a detect call on the auxiliary OBB detector, whose _detect returns no
\* masks, does not raise once the inference has returned its boxes, whatever
\* the image size and the rotate and auto_rotate flags; the call completes
\* and hands its boxes to the caller (dispatch, which merges them).
C29_AuxiliaryDetectCompletes ==
    (request.self = "yolo_obb" /\ passes > 0) => dpc # "raised"

\* the list s reordered by the permutation p of its indices
Permuted(s, p) == [i \in 1..Len(s) |-> s[p[i]]]
\* the box objects in the result of a merge of reordered lists, named by
\* their positions in yolo_boxes and main_boxes
ResultBoxes(res, py, pm) ==
    {[src |-> r.src, idx |-> IF r.src = "yolo" THEN py[r.idx] ELSE pm[r.idx]] :
        r \in Range(res)}

\* C25: merging any reordering of the auxiliary list with any reordering of
\* the primary list gives the same set of boxes; an auxiliary box is in the
\* result exactly if it is in the result of the merge of that box alone with
\* the primary boxes.
C25_OrderIndependence ==
    mpc = "merged" =>
        /\ \A py \in Permutations(YoloIdx) : \A pm \in Permutations(MainIdx) :
              ResultBoxes(MergeDetectionBoxes(Permuted(yolo_boxes, py),
                                              Permuted(main_boxes, pm)), py, pm)
                 = Range(merged)
        /\ \A yi \in YoloIdx :
              YoloRef(yi) \in Range(merged) <=>
                 YoloRef(1) \in Range(MergeDetectionBoxes(<<yolo_boxes[yi]>>, main_boxes))

\* two different auxiliary boxes, one kept and one removed
C25_Witness ==
    /\ mpc = "merged"
    /\ Len(yolo_boxes) = 2 /\ Len(main_boxes) = 2
    /\ yolo_boxes[1] # yolo_boxes[2]
    /\ main_boxes[1] # main_boxes[2]
    /\ YoloRef(1) \notin Range(merged)
    /\ YoloRef(2) \in Range(merged)
    /\ MainRef(1) \notin Range(merged)
    /\ MainRef(2) \in Range(merged)

\* C30: every primary box is in the result, or an auxiliary box that is in
\* the result encloses its bounding box; the result is empty only if both
\* lists are.
C30_Coverage ==
    mpc = "merged" =>
        /\ \A mi \in MainIdx :
              \/ MainRef(mi) \in Range(merged)
              \/ \E yi \in YoloIdx :
                    /\ YoloRef(yi) \in Range(merged)
                    /\ AabbEncloses(yolo_boxes[yi], main_boxes[mi])
        /\ (Len(yolo_boxes) + Len(main_boxes) > 0) => Len(merged) > 0

\* one primary box gave way to the auxiliary box around it, another primary
\* box stayed
C30_Witness ==
    /\ mpc = "merged"
    /\ \E mi \in MainIdx : MainRef(mi) \notin Range(merged)
    /\ \E mi \in MainIdx : MainRef(mi) \in Range(merged)
    /\ Len(yolo_boxes) > 0

\* C26: when a dispatch call has run the auxiliary detector, the IoU threshold
\* its suppression step was given is the yolo_obb_iou of that call.
C26_ConfiguredIouHonoured ==
    \A c \in Callers :
        (task[c].pc = "done" /\ task[c].use_yolo_obb /\ task[c].failed = "") =>
            InferIouThreshold = task[c].yolo_obb_iou

\* C21: whatever region_data the state was built from and whatever rotations
\* and polygons were applied since, the visual anchor is the original one and
\* verify_consistency holds: the bounding-box center of the compensated
\* geometry is the visual anchor.
C21_AntiJump ==
    /\ AnchorEq(geometry_state.visual_anchor, original_anchor)
    /\ VerifyConsistency(geometry_state)
    /\ WithinEpsilon(GetBackendDataForRendering(geometry_state).center[1], original_anchor.x)
    /\ WithinEpsilon(GetBackendDataForRendering(geometry_state).center[2], original_anchor.y)

====
